---- MODULE Spec2Model ----
(***************************************************************************)
(* A model of the archetype entity/component store of anthropic_ecs.h:     *)
(* ComponentPool (one group per component set), Registry (all pools, the   *)
(* remapping table, the version counter, the iteration flag) and EntityId  *)
(* (the caller-held, self-healing handle).                                  *)
(*                                                                         *)
(* size_t values that are hashed (type hashes, pool keys) are 64-bit words *)
(* written as four 16-bit limbs, most significant first, so that           *)
(* hashCombine keeps its width.  Slot indices are 0-based as in the code;  *)
(* the vectors are TLA+ sequences, so slot i is element i + 1.             *)
(***************************************************************************)
EXTENDS Integers, Naturals, Sequences, FiniteSets, TLC

\* ---------------------------------------------------------------- bounds

\* number of createEntity calls a behaviour may make (caps nextVersionIndex)
MaxVersion == 2
\* number of registry operations a behaviour may make
MaxOps == 3

\* ------------------------------------------------------- 64-bit arithmetic

Limb == 256 * 256

Zero64 == <<0, 0, 0, 0>>

RECURSIVE Xor16(_, _)
Xor16(x, y) ==
    IF x = 0 THEN y
    ELSE IF y = 0 THEN x
    ELSE (((x % 2) + (y % 2)) % 2) + 2 * Xor16(x \div 2, y \div 2)

Xor64(a, b) == [i \in 1..4 |-> Xor16(a[i], b[i])]

\* a + b modulo 2^64
Add64(a, b) ==
    LET s4 == a[4] + b[4]
        s3 == a[3] + b[3] + (s4 \div Limb)
        s2 == a[2] + b[2] + (s3 \div Limb)
        s1 == a[1] + b[1] + (s2 \div Limb)
    IN  <<s1 % Limb, s2 % Limb, s3 % Limb, s4 % Limb>>

\* a << 6 modulo 2^64
Shl6(a) ==
    [i \in 1..4 |-> ((a[i] * 64) % Limb) + (IF i < 4 THEN a[i + 1] \div 1024 ELSE 0)]

\* a >> 2
Shr2(a) ==
    [i \in 1..4 |-> (a[i] \div 4) + (IF i > 1 THEN (a[i - 1] % 4) * 16384 ELSE 0)]

\* a < b as unsigned 64-bit numbers
Less64(a, b) ==
    \E i \in 1..4 : a[i] < b[i] /\ \A j \in 1..(i - 1) : a[j] = b[j]

\* 0x9e3779b9
GoldenRatio == <<0, 0, 40503, 31161>>

\* seed ^= hash + 0x9e3779b9 + (seed << 6) + (seed >> 2)
hashCombine(seed, hash) ==
    Xor64(seed, Add64(Add64(Add64(hash, GoldenRatio), Shl6(seed)), Shr2(seed)))

\* std::sort of a vector of hashes (insertion into a sorted prefix)
RECURSIVE InsertSorted(_, _)
InsertSorted(h, s) ==
    IF s = <<>> THEN <<h>>
    ELSE IF Less64(s[1], h) THEN <<s[1]>> \o InsertSorted(h, Tail(s))
    ELSE <<h>> \o s

\* mutant: the vector is left in the order given
SortHashes_None(hashes) == hashes

RECURSIVE SortHashes(_)
SortHashes(hashes) ==
    IF hashes = <<>> THEN <<>>
    ELSE InsertSorted(hashes[1], SortHashes(Tail(hashes)))

RECURSIVE FoldHashes(_, _)
FoldHashes(seed, hashes) ==
    IF hashes = <<>> THEN seed
    ELSE FoldHashes(hashCombine(seed, hashes[1]), Tail(hashes))

combineHashes(hashes) == FoldHashes(Zero64, SortHashes(hashes))

\* ------------------------------------------------------ component universe

\* SetOfAllComponents: the three component types of the usage example, by
\* their index in the Registry's template parameter list
NumTypes == 3
TypeIndices == 0..(NumTypes - 1)

\* typeid(T).hash_code() is implementation defined: three distinct 64-bit
\* values whose numeric order is not the declaration order
TypeHash ==
    [t \in TypeIndices |->
        CASE t = 0 -> <<29871, 1042, 55301, 9>>
          [] t = 1 -> <<513, 60000, 77, 41234>>
          [] t = 2 -> <<29871, 1041, 65535, 65535>>]

\* Component{} of every type, and the values a caller supplies
DefaultValue == 0
Values == {0, 1}

\* ---------------------------------------------------------------- EntityId

\* mutant: every handle is stamped with version 0
EntityId_VersionZero(unstableIndex, version, poolKey, dead) ==
    [unstableIndex |-> unstableIndex, version |-> 0,
     poolKey |-> poolKey, dead |-> dead]

EntityId(unstableIndex, version, poolKey, dead) ==
    [unstableIndex |-> unstableIndex, version |-> version,
     poolKey |-> poolKey, dead |-> dead]

\* mutant: only the versions are compared, as operator== does
isIdentical_VersionOnly(a, b) == a.version = b.version

isIdentical(a, b) ==
    /\ a.unstableIndex = b.unstableIndex
    /\ a.version = b.version
    /\ a.poolKey = b.poolKey

\* ----------------------------------------------------------- ComponentPool

\* ComponentPool() followed by initFromTemplate / initFromBitmask
EmptyColumns == [t \in TypeIndices |-> <<>>]

SeqToSet(s) == {s[i] : i \in 1..Len(s)}

initFromTemplate(entityPoolKey, componentHashes, Components) ==
    [poolKey |-> entityPoolKey,
     componentHashes |-> componentHashes,
     componentsInUseIndices |-> Components,
     componentsInUseBitmask |-> SeqToSet(Components),
     components |-> EmptyColumns,
     versions |-> <<>>,
     poolSize |-> 0]

\* the indices of the set bits, in increasing order
RECURSIVE BitmaskIndices(_, _)
BitmaskIndices(bitmask, i) ==
    IF i >= NumTypes THEN <<>>
    ELSE (IF i \in bitmask THEN <<i>> ELSE <<>>) \o BitmaskIndices(bitmask, i + 1)

initFromBitmask(entityPoolKey, componentHashes, bitmask) ==
    [poolKey |-> entityPoolKey,
     componentHashes |-> componentHashes,
     componentsInUseIndices |-> BitmaskIndices(bitmask, 0),
     componentsInUseBitmask |-> bitmask,
     components |-> EmptyColumns,
     versions |-> <<>>,
     poolSize |-> 0]

\* mutant: every component is in use
hasComponent_Always(pool, Component) == TRUE

hasComponent(pool, Component) == Component \in pool.componentsInUseBitmask

\* mutant: one of the components is enough
hasComponents_Any(pool, Components) ==
    Components \cap pool.componentsInUseBitmask # {}

hasComponents(pool, Components) == Components \subseteq pool.componentsInUseBitmask

\* mutant: the dead flag is not tested
isValid_IgnoresDead(pool, id) ==
    IF id.unstableIndex >= pool.poolSize THEN FALSE
    ELSE IF id.version # pool.versions[id.unstableIndex + 1] THEN FALSE
    ELSE TRUE

\* mutant: the stored version is not compared
isValid_NoVersionCheck(pool, id) ==
    IF id.dead THEN FALSE
    ELSE IF id.unstableIndex >= pool.poolSize THEN FALSE
    ELSE TRUE

isValid(pool, id) ==
    IF id.dead THEN FALSE
    ELSE IF id.unstableIndex >= pool.poolSize THEN FALSE
    ELSE IF id.version # pool.versions[id.unstableIndex + 1] THEN FALSE
    ELSE TRUE

\* push_back of one value per template argument, in argument order
RECURSIVE PushAll(_, _, _)
PushAll(columns, Components, entityComponents) ==
    IF Components = <<>> THEN columns
    ELSE PushAll([columns EXCEPT ![Components[1]] = Append(@, entityComponents[1])],
                 Tail(Components), Tail(entityComponents))

\* ComponentPool::createEntity: ok is FALSE when an fi_assert aborts
PoolCreateEntity(pool, expectedEntityId, Components, entityComponents) ==
    LET pushed == PushAll(pool.components, Components, entityComponents)
        ok == /\ expectedEntityId.unstableIndex = pool.poolSize
              /\ pool.poolSize = Len(pool.versions)
    IN  [ok |-> ok,
         pool |-> [pool EXCEPT !.components = pushed,
                               !.versions = Append(@, expectedEntityId.version),
                               !.poolSize = @ + 1]]

\* mutant: a default value is pushed to every column of the tuple
PoolCreateEntityFromBitmask_AllColumns(pool, expectedEntityId) ==
    PoolCreateEntity(pool, expectedEntityId, BitmaskIndices(TypeIndices, 0),
                     [i \in 1..NumTypes |-> DefaultValue])

\* ComponentPool::createEntityFromBitmask
PoolCreateEntityFromBitmask(pool, expectedEntityId) ==
    LET n == Len(pool.componentsInUseIndices)
    IN  PoolCreateEntity(pool, expectedEntityId, pool.componentsInUseIndices,
                         [i \in 1..n |-> DefaultValue])

\* mutant: the vacated slot gets a default value instead of the back's
SwapPop_DefaultMoved(vec, index) ==
    LET n == Len(vec)
        swapped == IF index < n - 1
                   THEN [vec EXCEPT ![index + 1] = DefaultValue]
                   ELSE vec
    IN  SubSeq(swapped, 1, n - 1)

\* mutant: pop_back without the swap
SwapPop_NoSwap(vec, index) ==
    SubSeq(vec, 1, Len(vec) - 1)

\* swap with the back when not the back, then pop_back
SwapPop(vec, index) ==
    LET n == Len(vec)
        swapped == IF index < n - 1
                   THEN [vec EXCEPT ![index + 1] = vec[n], ![n] = vec[index + 1]]
                   ELSE vec
    IN  SubSeq(swapped, 1, n - 1)

\* mutant: pop_back without the swap
SwapPopVersions_NoSwap(versions, index) ==
    SubSeq(versions, 1, Len(versions) - 1)

\* std::swap(versions[i], versions.back()); versions.pop_back()
SwapPopVersions(versions, index) ==
    LET n == Len(versions)
        swapped == [versions EXCEPT ![index + 1] = versions[n], ![n] = versions[index + 1]]
    IN  SubSeq(swapped, 1, n - 1)

NoResult ==
    [success |-> FALSE, wasSwapped |-> FALSE,
     swappedEntityVersion |-> <<>>, swappedEntityUnstableIndex |-> <<>>]

\* mutant: success is reported and the slot stays
PoolRemoveEntity_KeepsSlot(pool, entityId) ==
    IF pool.poolSize = 0 THEN [pool |-> pool, result |-> NoResult]
    ELSE IF ~isValid(pool, entityId) THEN [pool |-> pool, result |-> NoResult]
    ELSE [pool |-> pool, result |-> [NoResult EXCEPT !.success = TRUE]]

\* mutant: a pool that loses its last entity forgets its component set
PoolRemoveEntity_ForgetsSet(pool, entityId) ==
    IF pool.poolSize = 0 THEN [pool |-> pool, result |-> NoResult]
    ELSE IF ~isValid(pool, entityId) THEN [pool |-> pool, result |-> NoResult]
    ELSE
        LET swap == pool.poolSize > 1
            result == [success |-> TRUE,
                       wasSwapped |-> swap,
                       swappedEntityVersion |->
                           IF swap THEN <<pool.versions[Len(pool.versions)]>> ELSE <<>>,
                       swappedEntityUnstableIndex |->
                           IF swap THEN <<entityId.unstableIndex>> ELSE <<>>]
            columns == [t \in TypeIndices |->
                          IF t \in SeqToSet(pool.componentsInUseIndices)
                          THEN SwapPop(pool.components[t], entityId.unstableIndex)
                          ELSE pool.components[t]]
        IN  [pool |-> [pool EXCEPT !.components = columns,
                                   !.versions = SwapPopVersions(@, entityId.unstableIndex),
                                   !.poolSize = @ - 1,
                                   !.componentsInUseBitmask = IF swap THEN @ ELSE {}],
             result |-> result]

\* ComponentPool::removeEntity; an absent std::optional is <<>>, a present one <<x>>
PoolRemoveEntity(pool, entityId) ==
    IF pool.poolSize = 0 THEN [pool |-> pool, result |-> NoResult]
    ELSE IF ~isValid(pool, entityId) THEN [pool |-> pool, result |-> NoResult]
    ELSE
        LET swap == pool.poolSize > 1
            result == [success |-> TRUE,
                       wasSwapped |-> swap,
                       swappedEntityVersion |->
                           IF swap THEN <<pool.versions[Len(pool.versions)]>> ELSE <<>>,
                       swappedEntityUnstableIndex |->
                           IF swap THEN <<entityId.unstableIndex>> ELSE <<>>]
            columns == [t \in TypeIndices |->
                          IF t \in SeqToSet(pool.componentsInUseIndices)
                          THEN SwapPop(pool.components[t], entityId.unstableIndex)
                          ELSE pool.components[t]]
        IN  [pool |-> [pool EXCEPT !.components = columns,
                                   !.versions = SwapPopVersions(@, entityId.unstableIndex),
                                   !.poolSize = @ - 1],
             result |-> result]

\* mutant: the value at the back of the column is returned
getComponent_BackSlot(pool, entityId, Component) ==
    IF ~hasComponents(pool, {Component}) THEN <<>>
    ELSE IF isValid(pool, entityId)
         THEN <<pool.components[Component][Len(pool.components[Component])]>>
         ELSE <<>>

\* mutant: the pool's component set is not consulted
getComponent_AnyColumn(pool, entityId, Component) ==
    IF isValid(pool, entityId) /\ entityId.unstableIndex < Len(pool.components[Component])
    THEN <<pool.components[Component][entityId.unstableIndex + 1]>>
    ELSE IF isValid(pool, entityId) THEN <<DefaultValue>> ELSE <<>>

\* ComponentPool::getComponent: <<>> is nullptr, <<x>> a pointer to the value x
getComponent(pool, entityId, Component) ==
    IF ~hasComponents(pool, {Component}) THEN <<>>
    ELSE IF isValid(pool, entityId)
         THEN <<pool.components[Component][entityId.unstableIndex + 1]>>
         ELSE <<>>

\* ---------------------------------------------------------------- Registry

\* resolveEntityId gives up after this many remap replacements in the model
HopLimit == 3

\* the Registry's fields as one value
Registry(p, r, n, it) ==
    [pools |-> p, entityRemappings |-> r, nextVersionIndex |-> n, isIterating |-> it]

\* unordered_map: insert or overwrite the entry of key k
MapPut(m, k, v) == [x \in (DOMAIN m) \cup {k} |-> IF x = k THEN v ELSE m[x]]

EmptyMap == [x \in {} |-> 0]

\* {typeid(Components).hash_code()...}
TypeHashes(Components) == [i \in 1..Len(Components) |-> TypeHash[Components[i]]]

\* every vector of type hashes an operation can build: distinct types, any order
HashVectors ==
    {hs \in UNION {[1..n -> {TypeHash[t] : t \in TypeIndices}] : n \in 0..NumTypes} :
        \A i, j \in DOMAIN hs : i # j => hs[i] # hs[j]}

\* combineHashes, computed once per vector
CombinedHash == [hs \in HashVectors |-> combineHashes(hs)]

generateComponentPoolKeyFromHashes(typeHashes) ==
    [key |-> CombinedHash[typeHashes], representation |-> typeHashes]

generateComponentPoolKeyFromTemplate(Components) ==
    generateComponentPoolKeyFromHashes(TypeHashes(Components))

\* mutant: the swapped entity's new slot is not published
handleRemoveResult_NoPublish(entityRemappings, removeResult, poolKey) ==
    entityRemappings

\* mutant: the entry is filed under the slot index instead of the version
handleRemoveResult_WrongKey(entityRemappings, removeResult, poolKey) ==
    IF removeResult.success /\ removeResult.wasSwapped
    THEN MapPut(entityRemappings, removeResult.swappedEntityUnstableIndex[1],
                EntityId(removeResult.swappedEntityUnstableIndex[1],
                         removeResult.swappedEntityVersion[1], poolKey, FALSE))
    ELSE entityRemappings

\* mutant: the entry names the slot after the vacated one
handleRemoveResult_OffByOne(entityRemappings, removeResult, poolKey) ==
    IF removeResult.success /\ removeResult.wasSwapped
    THEN MapPut(entityRemappings, removeResult.swappedEntityVersion[1],
                EntityId(removeResult.swappedEntityUnstableIndex[1] + 1,
                         removeResult.swappedEntityVersion[1], poolKey, FALSE))
    ELSE entityRemappings

\* mutant: the entry carries the version after the swapped entity's
handleRemoveResult_NextVersion(entityRemappings, removeResult, poolKey) ==
    IF removeResult.success /\ removeResult.wasSwapped
    THEN MapPut(entityRemappings, removeResult.swappedEntityVersion[1],
                EntityId(removeResult.swappedEntityUnstableIndex[1],
                         removeResult.swappedEntityVersion[1] + 1, poolKey, FALSE))
    ELSE entityRemappings

\* mutant: the published entry is tombstoned
handleRemoveResult_Tombstoned(entityRemappings, removeResult, poolKey) ==
    IF removeResult.success /\ removeResult.wasSwapped
    THEN MapPut(entityRemappings, removeResult.swappedEntityVersion[1],
                EntityId(removeResult.swappedEntityUnstableIndex[1],
                         removeResult.swappedEntityVersion[1], poolKey, TRUE))
    ELSE entityRemappings

handleRemoveResult(entityRemappings, removeResult, poolKey) ==
    IF ~removeResult.success THEN entityRemappings
    ELSE IF removeResult.wasSwapped
            /\ removeResult.swappedEntityVersion # <<>>
            /\ removeResult.swappedEntityUnstableIndex # <<>>
         THEN MapPut(entityRemappings, removeResult.swappedEntityVersion[1],
                     EntityId(removeResult.swappedEntityUnstableIndex[1],
                              removeResult.swappedEntityVersion[1], poolKey, FALSE))
         ELSE entityRemappings

\* Registry::resolveEntityId.  ok: the return value; entityId: the caller's
\* handle afterwards; pool: the key of the pool handed back (<<>>: none);
\* hops: how often the handle was replaced by a remap target; cut: the model
\* stopped following replacements at HopLimit
RECURSIVE ResolveFrom(_, _, _, _)
\* mutant: the dead flag of the handle is not looked at
ResolveFrom_IgnoresTombstone(pools, entityRemappings, entityId, hops) ==
    LET fail == [ok |-> FALSE, entityId |-> entityId, pool |-> <<>>,
                 entityRemappings |-> entityRemappings, hops |-> hops, cut |-> FALSE]
    IN
    IF entityId.poolKey \in DOMAIN pools
          /\ entityId.unstableIndex < pools[entityId.poolKey].poolSize
          /\ pools[entityId.poolKey].versions[entityId.unstableIndex + 1] = entityId.version
    THEN [fail EXCEPT !.ok = TRUE, !.pool = <<entityId.poolKey>>]
    ELSE IF entityId.version \in DOMAIN entityRemappings
    THEN IF isIdentical(entityRemappings[entityId.version], entityId)
         THEN [fail EXCEPT !.entityId.dead = TRUE,
                           !.entityRemappings[entityId.version].dead = TRUE]
         ELSE IF hops >= HopLimit THEN [fail EXCEPT !.cut = TRUE]
         ELSE ResolveFrom(pools, entityRemappings,
                          entityRemappings[entityId.version], hops + 1)
    ELSE fail

ResolveFrom(pools, entityRemappings, entityId, hops) ==
    LET fail == [ok |-> FALSE, entityId |-> entityId, pool |-> <<>>,
                 entityRemappings |-> entityRemappings, hops |-> hops, cut |-> FALSE]
    IN
    IF entityId.dead THEN fail
    ELSE IF entityId.poolKey \in DOMAIN pools /\ isValid(pools[entityId.poolKey], entityId)
    THEN [fail EXCEPT !.ok = TRUE, !.pool = <<entityId.poolKey>>]
    ELSE IF entityId.version \in DOMAIN entityRemappings
    THEN IF isIdentical(entityRemappings[entityId.version], entityId)
         THEN [fail EXCEPT !.entityId.dead = TRUE,
                           !.entityRemappings[entityId.version].dead = TRUE]
         ELSE IF hops >= HopLimit THEN [fail EXCEPT !.cut = TRUE]
         ELSE ResolveFrom(pools, entityRemappings,
                          entityRemappings[entityId.version], hops + 1)
    ELSE fail

resolveEntityId(reg, entityId) ==
    ResolveFrom(reg.pools, reg.entityRemappings, entityId, 0)

\* What an operation hands back: the registry afterwards, the caller's handle
\* afterwards, fault ("none", or "assert" when fi_assert / std::abort ended the
\* process, or "ub" for a read outside a vector), and a note of what it did.
Outcome(reg, entityId, fault, note) ==
    [reg |-> reg, entityId |-> entityId, fault |-> fault, note |-> note]

IteratingMessage == "Cannot add/remove entities, and cannot add/remove components during iteration."

NoNote == [kind |-> "none"]

\* Registry::createEntity<Components...>(components...): the overload without
\* arguments passes Components{}... and is otherwise the same
createEntity(reg, Components, entityComponents) ==
    IF reg.isIterating
    THEN Outcome(reg, EntityId(0, 0, Zero64, FALSE), "assert", [kind |-> "rejected"])
    ELSE
        LET kr == generateComponentPoolKeyFromTemplate(Components)
            pools1 == IF kr.key \in DOMAIN reg.pools THEN reg.pools
                      ELSE MapPut(reg.pools, kr.key,
                                  initFromTemplate(kr.key, kr.representation, Components))
            entityId == EntityId(pools1[kr.key].poolSize, reg.nextVersionIndex, kr.key, FALSE)
            made == PoolCreateEntity(pools1[kr.key], entityId, Components, entityComponents)
        IN  Outcome([reg EXCEPT !.pools = MapPut(pools1, kr.key, made.pool),
                                !.nextVersionIndex = @ + 1],
                    entityId,
                    IF made.ok THEN "none" ELSE "assert",
                    [kind |-> "created"])

\* Registry::removeEntity
removeEntity(reg, entityId) ==
    IF reg.isIterating THEN Outcome(reg, entityId, "assert", [kind |-> "rejected"])
    ELSE
        LET res == resolveEntityId(reg, entityId)
            reg1 == [reg EXCEPT !.entityRemappings = res.entityRemappings]
        IN
        IF ~res.ok THEN Outcome(reg1, res.entityId, "none", [kind |-> "unresolved"])
        ELSE
            LET rem == PoolRemoveEntity(reg1.pools[res.pool[1]], res.entityId)
                id2 == IF rem.result.success THEN [res.entityId EXCEPT !.dead = TRUE]
                       ELSE res.entityId
            IN  Outcome([reg1 EXCEPT
                            !.pools = MapPut(@, res.pool[1], rem.pool),
                            !.entityRemappings =
                                handleRemoveResult(@, rem.result, rem.pool.poolKey)],
                        id2, "none",
                        [kind |-> "removed", result |-> rem.result,
                         pool |-> res.pool[1], index |-> res.entityId.unstableIndex])

\* the values of slot index of a pool, one per component in use
Row(pool, index) ==
    [t \in pool.componentsInUseBitmask |->
        IF index < Len(pool.components[t]) THEN <<pool.components[t][index + 1]>> ELSE <<>>]

\* mutant: the copy loop copies nothing
CopyShared_Nothing(oldPool, newPool, oldIndex, newIndex, ComponentToSkip) ==
    newPool

\* mutant: the copy loop writes to the first slot of the new pool
CopyShared_FirstSlot(oldPool, newPool, oldIndex, newIndex, ComponentToSkip) ==
    [newPool EXCEPT !.components =
        [t \in TypeIndices |->
            IF t \in SeqToSet(newPool.componentsInUseIndices) /\ t # ComponentToSkip
            THEN [@[t] EXCEPT ![1] = oldPool.components[t][oldIndex + 1]]
            ELSE @[t]]]

\* the copy loop of transferEntityToNewPool: every component in use of the new
\* pool except ComponentToSkip is assigned from the old slot
CopyShared(oldPool, newPool, oldIndex, newIndex, ComponentToSkip) ==
    [newPool EXCEPT !.components =
        [t \in TypeIndices |->
            IF t \in SeqToSet(newPool.componentsInUseIndices) /\ t # ComponentToSkip
            THEN [@[t] EXCEPT ![newIndex + 1] = oldPool.components[t][oldIndex + 1]]
            ELSE @[t]]]

\* the copy loop reads or writes outside a vector
CopyOutOfRange(oldPool, newPool, oldIndex, newIndex, ComponentToSkip) ==
    \E t \in SeqToSet(newPool.componentsInUseIndices) \ {ComponentToSkip} :
        \/ oldIndex >= Len(oldPool.components[t])
        \/ newIndex >= Len(newPool.components[t])

\* mutant: the caller's handle is left as it was
AssignHandle_Keep(oldEntityId, newEntityId) == oldEntityId

\* oldEntityId = newEntityId, through the reference to the caller's handle
AssignHandle(oldEntityId, newEntityId) == newEntityId

\* Registry::transferEntityToNewPool; oldKey and newKey name oldPool and newPool.
\* The note keeps the destination slot as it is when the source slot is removed.
transferEntityToNewPool(reg, oldEntityId, newEntityId, oldKey, newKey, ComponentToSkip) ==
    IF reg.isIterating THEN Outcome(reg, oldEntityId, "assert", [kind |-> "rejected"])
    ELSE
        LET made == PoolCreateEntityFromBitmask(reg.pools[newKey], newEntityId)
            pools1 == MapPut(reg.pools, newKey, made.pool)
            reg1 == [reg EXCEPT !.pools = pools1]
            asserts == /\ made.ok
                       /\ newEntityId.unstableIndex = made.pool.poolSize - 1
                       /\ newEntityId.version = made.pool.versions[Len(made.pool.versions)]
        IN
        IF ~asserts THEN Outcome(reg1, oldEntityId, "assert", [kind |-> "aborted"])
        ELSE IF CopyOutOfRange(pools1[oldKey], pools1[newKey], oldEntityId.unstableIndex,
                               newEntityId.unstableIndex, ComponentToSkip)
        THEN Outcome(reg1, oldEntityId, "ub", [kind |-> "aborted"])
        ELSE
            LET copied == CopyShared(pools1[oldKey], pools1[newKey],
                                     oldEntityId.unstableIndex,
                                     newEntityId.unstableIndex, ComponentToSkip)
                pools2 == MapPut(pools1, newKey, copied)
                rem == PoolRemoveEntity(pools2[oldKey], oldEntityId)
                pools3 == MapPut(pools2, oldKey, rem.pool)
                remap1 == handleRemoveResult(reg.entityRemappings, rem.result,
                                             rem.pool.poolKey)
                remap2 == MapPut(remap1, newEntityId.version, newEntityId)
            IN  Outcome([reg EXCEPT !.pools = pools3, !.entityRemappings = remap2],
                        AssignHandle(oldEntityId, newEntityId), "none",
                        [kind |-> "relocated",
                         from |-> oldKey, to |-> newKey,
                         fromIndex |-> oldEntityId.unstableIndex,
                         toIndex |-> newEntityId.unstableIndex,
                         result |-> rem.result,
                         sourceRow |-> Row(pools2[oldKey], oldEntityId.unstableIndex),
                         destinationAtRemoval |->
                             Row(pools2[newKey], newEntityId.unstableIndex)])

\* mutant: the first hash is erased, whichever it is
RemoveHash_First(hashes, h) == Tail(hashes)

\* std::remove + erase of one hash
RemoveHash(hashes, h) == SelectSeq(hashes, LAMBDA x : x # h)

\* mutant: newEntityId.unstableIndex is the size of the source pool
Relocate_SourceSize(reg, entityId, oldKey, intermediateHashes, nextBitmask, Component) ==
    LET kr == generateComponentPoolKeyFromHashes(intermediateHashes)
        pools1 == IF kr.key \in DOMAIN reg.pools THEN reg.pools
                  ELSE MapPut(reg.pools, kr.key,
                              initFromBitmask(kr.key, kr.representation, nextBitmask))
        newEntityId == EntityId(pools1[oldKey].poolSize, entityId.version, kr.key, FALSE)
    IN  transferEntityToNewPool([reg EXCEPT !.pools = pools1], entityId, newEntityId,
                                oldKey, kr.key, Component)

\* the part of addComponent / removeComponent after the new key is known:
\* materialize the pool, build newEntityId, transfer
Relocate(reg, entityId, oldKey, intermediateHashes, nextBitmask, Component) ==
    LET kr == generateComponentPoolKeyFromHashes(intermediateHashes)
        pools1 == IF kr.key \in DOMAIN reg.pools THEN reg.pools
                  ELSE MapPut(reg.pools, kr.key,
                              initFromBitmask(kr.key, kr.representation, nextBitmask))
        newEntityId == EntityId(pools1[kr.key].poolSize, entityId.version, kr.key, FALSE)
    IN  transferEntityToNewPool([reg EXCEPT !.pools = pools1], entityId, newEntityId,
                                oldKey, kr.key, Component)

\* mutant: the value is written to the first slot of the pool
OverwriteInPlace_FirstSlot(pools, key, index, Component, component) ==
    [pools EXCEPT ![key].components[Component][1] = component]

\* *this->get<ComponentToAdd>(entityId) = component, for a resolved entityId
\* whose pool has the component
OverwriteInPlace(pools, key, index, Component, component) ==
    [pools EXCEPT ![key].components[Component][index + 1] = component]

\* Registry::addComponent
addComponent(reg, entityId, ComponentToAdd, component) ==
    IF reg.isIterating THEN Outcome(reg, entityId, "assert", [kind |-> "rejected"])
    ELSE
        LET res == resolveEntityId(reg, entityId)
            reg1 == [reg EXCEPT !.entityRemappings = res.entityRemappings]
        IN
        IF ~res.ok THEN Outcome(reg1, res.entityId, "none", [kind |-> "unresolved"])
        ELSE IF hasComponent(reg1.pools[res.pool[1]], ComponentToAdd)
        THEN Outcome([reg1 EXCEPT !.pools =
                         OverwriteInPlace(@, res.pool[1], res.entityId.unstableIndex,
                                          ComponentToAdd, component)],
                     res.entityId, "none", [kind |-> "overwritten"])
        ELSE
            LET oldPool == reg1.pools[res.pool[1]]
                moved == Relocate(reg1, res.entityId, res.pool[1],
                                  Append(oldPool.componentHashes, TypeHash[ComponentToAdd]),
                                  oldPool.componentsInUseBitmask \cup {ComponentToAdd},
                                  ComponentToAdd)
            IN  \* newComponentVector[newEntityId.unstableIndex] = component
            IF moved.fault # "none" THEN moved
            ELSE IF moved.note.toIndex
                        >= Len(moved.reg.pools[moved.note.to].components[ComponentToAdd])
            THEN [moved EXCEPT !.fault = "ub"]
            ELSE [moved EXCEPT !.reg.pools[moved.note.to].components[ComponentToAdd]
                                    [moved.note.toIndex + 1] = component]

\* Registry::removeComponent
removeComponent(reg, entityId, ComponentToRemove) ==
    IF reg.isIterating THEN Outcome(reg, entityId, "assert", [kind |-> "rejected"])
    ELSE
        LET res == resolveEntityId(reg, entityId)
            reg1 == [reg EXCEPT !.entityRemappings = res.entityRemappings]
        IN
        IF ~res.ok THEN Outcome(reg1, res.entityId, "none", [kind |-> "unresolved"])
        ELSE IF ~hasComponent(reg1.pools[res.pool[1]], ComponentToRemove)
        THEN Outcome(reg1, res.entityId, "none", [kind |-> "absent"])
        ELSE
            LET oldPool == reg1.pools[res.pool[1]]
            IN  Relocate(reg1, res.entityId, res.pool[1],
                         RemoveHash(oldPool.componentHashes, TypeHash[ComponentToRemove]),
                         oldPool.componentsInUseBitmask \ {ComponentToRemove},
                         ComponentToRemove)

\* Registry::get: found is <<>> for nullptr and <<x>> for a pointer to the value x
get(reg, entityId, Component) ==
    LET res == resolveEntityId(reg, entityId)
        reg1 == [reg EXCEPT !.entityRemappings = res.entityRemappings]
    IN  Outcome(reg1, res.entityId, "none",
                [kind |-> "got",
                 found |-> IF res.ok
                           THEN getComponent(reg1.pools[res.pool[1]], res.entityId, Component)
                           ELSE <<>>])

\* Registry::set
set(reg, entityId, Component, component) ==
    LET res == resolveEntityId(reg, entityId)
        reg1 == [reg EXCEPT !.entityRemappings = res.entityRemappings]
        ptr == IF res.ok
               THEN getComponent(reg1.pools[res.pool[1]], res.entityId, Component)
               ELSE <<>>
    IN  IF ptr # <<>>
        THEN Outcome([reg1 EXCEPT !.pools[res.pool[1]].components[Component]
                                      [res.entityId.unstableIndex + 1] = component],
                     res.entityId, "none", [kind |-> "written"])
        ELSE Outcome(reg1, res.entityId, "none", [kind |-> "notfound"])

\* Registry::getPool: <<>> is nullptr
getPool(reg, Components) ==
    LET kr == generateComponentPoolKeyFromTemplate(Components)
    IN  IF kr.key \in DOMAIN reg.pools THEN <<reg.pools[kr.key]>> ELSE <<>>

\* mutant: the lookup materializes a missing pool, as pools[key] would
Lookup_Emplacing(reg, Components) ==
    LET kr == generateComponentPoolKeyFromTemplate(Components)
    IN  IF kr.key \in DOMAIN reg.pools THEN reg
        ELSE [reg EXCEPT !.pools =
                 MapPut(@, kr.key, initFromTemplate(kr.key, kr.representation, Components))]

\* the registry after pools.find(key) in getPool: find inserts nothing
Lookup(reg, Components) == reg

\* a call of getPool: the registry it leaves and the pointer it returns
getPoolCall(reg, Components) ==
    Outcome(Lookup(reg, Components), EntityId(0, 0, Zero64, FALSE), "none",
            [kind |-> IF getPool(reg, Components) = <<>> THEN "notfound" ELSE "found",
             Components |-> SeqToSet(Components),
             pool |-> getPool(reg, Components)])

\* ------------------------------------------------------------------ state

VARIABLES
    pools,              \* Registry::pools: pool key -> ComponentPool
    entityRemappings,   \* Registry::entityRemappings: version -> EntityId
    nextVersionIndex,   \* Registry::nextVersionIndex
    isIterating,        \* Registry::isIterating
    stack,              \* the bulk iterations in progress, innermost last
    held,               \* the caller's EntityId variables: version -> copy -> EntityId
    begun,              \* the bulk iterations started so far
    abstract,           \* the entities as a plain map: version -> alive, type -> value
    fault,              \* "none" while the process runs, "assert" / "ub" once it ended
    last,               \* the operation that produced this state
    ops                 \* number of registry operations made so far

vars == <<pools, entityRemappings, nextVersionIndex, isIterating, stack, held,
          abstract, fault, last, ops, begun>>

Reg == Registry(pools, entityRemappings, nextVersionIndex, isIterating)

\* the caller keeps two variables per entity: the one createEntity returned
\* into (Primary), which it passes to the mutating operations, and a copy taken
\* at creation, which it only reads through (get)
Primary == "primary"
Copies == {"primary", "copy"}

\* the template argument lists createEntity is called with
TemplateLists == {<<0>>, <<0, 1>>, <<1, 0>>, <<0, 2>>}

\* the arguments of createEntity: the caller gives every component of the
\* entity it creates the value version + 1, which tells the entities apart
CreateArguments(Components) ==
    {[i \in 1..Len(Components) |-> nextVersionIndex + 1]}

\* an abstract entity: alive with its components, or destroyed
Alive(components) == [alive |-> TRUE, components |-> components]
Destroyed == [alive |-> FALSE, components |-> EmptyMap]

Versions == 0..(nextVersionIndex - 1)

Init ==
    /\ pools = EmptyMap
    /\ entityRemappings = EmptyMap
    /\ nextVersionIndex = 0
    /\ isIterating = FALSE
    /\ stack = <<>>
    /\ begun = 0
    /\ held = EmptyMap
    /\ abstract = EmptyMap
    /\ fault = "none"
    /\ last = [op |-> "init"]
    /\ ops = 0

\* the caller's code runs: at top level, or inside the innermost callback
CallerRuns == IF stack = <<>> THEN TRUE ELSE stack[Len(stack)].phase = "callback"

Running == fault = "none" /\ ops < MaxOps /\ CallerRuns

\* the registry fields, the fault and the step counter after an operation.  An
\* insertion into the unordered_map pools while a range-for over it is in
\* progress either rehashes, which invalidates the loop's iterator (undefined
\* behaviour), or does not, and then the loop may or may not come to the new pool.
\* the entities of each pool, slot by slot
Membership(ps) == [k \in DOMAIN ps |-> ps[k].versions]

\* the frames of the iterations in progress, marked when an operation made
\* inside them has changed which entities the pools hold
Marked(frames, out) ==
    IF Membership(out.reg.pools) # Membership(pools)
    THEN [d \in DOMAIN frames |-> [frames[d] EXCEPT !.mutated = TRUE]]
    ELSE frames

Commit(out) ==
    LET fresh == (DOMAIN out.reg.pools) \ (DOMAIN pools)
    IN
    /\ pools' = out.reg.pools
    /\ entityRemappings' = out.reg.entityRemappings
    /\ nextVersionIndex' = out.reg.nextVersionIndex
    /\ isIterating' = out.reg.isIterating
    /\ ops' = ops + 1
    /\ begun' = begun
    /\ IF stack # <<>> /\ fresh # {} /\ out.fault = "none"
       THEN \E rehash \in BOOLEAN, passed \in BOOLEAN :
               /\ fault' = IF rehash THEN "ub" ELSE "none"
               /\ stack' = Marked(IF passed
                                   THEN [d \in DOMAIN stack |->
                                           [stack[d] EXCEPT !.visited = @ \cup fresh]]
                                   ELSE stack, out)
       ELSE /\ fault' = out.fault
            /\ stack' = Marked(stack, out)

\* the operation applies to the abstract entity: the handle is not tombstoned
\* and the entity was not destroyed
Applies(v, c) == ~held[v][c].dead /\ abstract[v].alive

\* what last records of a call: the operation, the entity whose handle was
\* passed, the number of iterations in progress at the call, and the outcome
Call(op, v, out) ==
    [op |-> op, version |-> v, depth |-> Len(stack), note |-> out.note]

\* the caller's statement  EntityId e = registry.createEntity<Components...>(...)
CreateEntityWith(Components, entityComponents) ==
    \E out \in {createEntity(Reg, Components, entityComponents)} :
       LET v == nextVersionIndex
       IN  /\ Commit(out)
           /\ last' = Call("createEntity", v, out)
           /\ IF out.note.kind = "rejected"
              THEN UNCHANGED <<held, abstract>>
              ELSE /\ held' = MapPut(held, v, [c \in Copies |-> out.entityId])
                   /\ abstract' = MapPut(abstract, v, Alive(
                         [t \in SeqToSet(Components) |->
                             entityComponents[CHOOSE i \in 1..Len(Components) :
                                                 Components[i] = t]]))

CreateEntity ==
    /\ Running
    /\ nextVersionIndex < MaxVersion
    /\ \E Components \in TemplateLists :
       \E entityComponents \in CreateArguments(Components) :
          CreateEntityWith(Components, entityComponents)

\* the caller's statement  registry.removeEntity(e)
RemoveEntityOf(v) ==
    \E out \in {removeEntity(Reg, held[v][Primary])} :
       /\ Commit(out)
       /\ last' = Call("removeEntity", v, out)
       /\ held' = [held EXCEPT ![v][Primary] = out.entityId]
       /\ abstract' = IF Applies(v, Primary) /\ out.note.kind # "rejected"
                      THEN [abstract EXCEPT ![v] = Destroyed]
                      ELSE abstract

RemoveEntity ==
    /\ Running
    /\ \E v \in Versions : RemoveEntityOf(v)

\* the caller's statement  registry.addComponent<T>(e, x)
AddComponentTo(v, t, x) ==
    \E out \in {addComponent(Reg, held[v][Primary], t, x)} :
       /\ Commit(out)
       /\ last' = Call("addComponent", v, out)
       /\ held' = [held EXCEPT ![v][Primary] = out.entityId]
       /\ abstract' = IF Applies(v, Primary) /\ out.note.kind # "rejected"
                      THEN [abstract EXCEPT ![v].components = MapPut(@, t, x)]
                      ELSE abstract

AddComponent ==
    /\ Running
    /\ \E v \in Versions, t \in TypeIndices, x \in Values : AddComponentTo(v, t, x)

RemoveComponent ==
    /\ Running
    /\ \E v \in Versions, t \in TypeIndices :
       \E out \in {removeComponent(Reg, held[v][Primary], t)} :
          /\ Commit(out)
          /\ last' = Call("removeComponent", v, out)
          /\ held' = [held EXCEPT ![v][Primary] = out.entityId]
          /\ abstract' = IF Applies(v, Primary) /\ out.note.kind # "rejected"
                         THEN [abstract EXCEPT ![v].components =
                                  [u \in (DOMAIN @) \ {t} |-> @[u]]]
                         ELSE abstract

Set ==
    /\ Running
    /\ \E v \in Versions, t \in TypeIndices, x \in Values :
       \E out \in {set(Reg, held[v][Primary], t, x)} :
          /\ Commit(out)
          /\ last' = Call("set", v, out)
          /\ held' = [held EXCEPT ![v][Primary] = out.entityId]
          /\ abstract' = IF Applies(v, Primary) /\ t \in DOMAIN abstract[v].components
                         THEN [abstract EXCEPT ![v].components[t] = x]
                         ELSE abstract

Get ==
    /\ Running
    /\ \E v \in Versions, c \in Copies, t \in TypeIndices :
       \E out \in {get(Reg, held[v][c], t)} :
          /\ Commit(out)
          /\ last' = Call("get", v, out)
          /\ held' = [held EXCEPT ![v][c] = out.entityId]
          /\ abstract' = abstract

\* the handles a caller can hand to the pool with key k: those it holds, the
\* tombstoned ones of those, and every slot of the pool and the one past its
\* end paired with every version assigned and the one not yet assigned
PoolHandles(k) ==
    LET mine == {held[v][c] : v \in DOMAIN held, c \in Copies}
    IN  mine \cup {[h EXCEPT !.dead = TRUE] : h \in mine}
             \cup {EntityId(i, v, k, FALSE) :
                      i \in 0..pools[k].poolSize, v \in 0..nextVersionIndex}

\* the caller's statement  pool->removeEntity(e)  on a pool it got from getPool
\* or was handed by forEachPool; the handle is passed by value and the remap
\* table is not told
PoolRemoveEntityCall ==
    /\ Running
    /\ \E k \in DOMAIN pools :
       \E h \in PoolHandles(k) :
       \E rem \in {PoolRemoveEntity(pools[k], h)} :
       \E out \in {Outcome([Reg EXCEPT !.pools = MapPut(@, k, rem.pool)], h, "none",
                            [kind |-> "pool", pool |-> pools[k], entityId |-> h,
                             result |-> rem.result])} :
          /\ Commit(out)
          /\ last' = [op |-> "pool.removeEntity", depth |-> Len(stack), note |-> out.note]
          /\ held' = held
          /\ abstract' = IF rem.result.success
                         THEN [abstract EXCEPT ![h.version] = Destroyed]
                         ELSE abstract

\* the template argument lists getPool is called with
GetPoolLists == {<<0>>, <<1, 0>>, <<0, 2>>, <<1, 2>>, <<0, 1, 2>>}

\* the caller's statement  registry.getPool<Components...>()
GetPoolOf(Components) ==
    \E out \in {getPoolCall(Reg, Components)} :
       /\ Commit(out)
       /\ last' = [op |-> "getPool", depth |-> Len(stack), note |-> out.note]
       /\ UNCHANGED <<held, abstract>>

GetPool ==
    /\ Running
    /\ \E Components \in GetPoolLists : GetPoolOf(Components)

\* the caller adds a component and removes it again in the next statement
AddThenRemoveComponent ==
    /\ Running
    /\ \E v \in Versions, t \in TypeIndices, x \in Values :
       \E a \in {addComponent(Reg, held[v][Primary], t, x)} :
       \E out \in {IF a.fault = "none" THEN removeComponent(a.reg, a.entityId, t) ELSE a} :
          /\ Commit(out)
          /\ last' = [op |-> "addThenRemoveComponent", version |-> v, depth |-> Len(stack),
                      note |-> [kind |-> out.note.kind, first |-> a.note.kind,
                                origin |-> IF a.note.kind = "relocated"
                                           THEN <<a.note.from, a.note.sourceRow>>
                                           ELSE <<>>]]
          /\ held' = [held EXCEPT ![v][Primary] = out.entityId]
          /\ abstract' = IF Applies(v, Primary) /\ a.note.kind # "rejected"
                         THEN [abstract EXCEPT ![v].components =
                                  [u \in (DOMAIN @) \ {t} |-> @[u]]]
                         ELSE abstract

\* the caller creates an entity and destroys it in the next statement, keeping
\* a copy of the handle createEntity returned
CreateThenRemoveEntity ==
    /\ Running
    /\ nextVersionIndex < MaxVersion
    /\ \E Components \in TemplateLists :
       \E entityComponents \in CreateArguments(Components) :
       \E a \in {createEntity(Reg, Components, entityComponents)} :
       \E out \in {IF a.fault = "none" THEN removeEntity(a.reg, a.entityId) ELSE a} :
          LET v == nextVersionIndex
          IN  /\ Commit(out)
              /\ last' = [op |-> "createThenRemoveEntity", version |-> v,
                          depth |-> Len(stack),
                          note |-> [kind |-> out.note.kind, first |-> a.note.kind,
                                    pool |-> a.entityId.poolKey,
                                    sizes |-> [k \in DOMAIN pools |-> pools[k].poolSize]]]
              /\ IF a.note.kind = "rejected"
                 THEN UNCHANGED <<held, abstract>>
                 ELSE /\ held' = MapPut(held, v, [c \in Copies |->
                                     IF c = Primary THEN out.entityId ELSE a.entityId])
                      /\ abstract' = MapPut(abstract, v,
                            IF out.note.kind = "removed" THEN Destroyed
                            ELSE Alive([t \in SeqToSet(Components) |->
                                     entityComponents[CHOOSE i \in 1..Len(Components) :
                                                         Components[i] = t]]))

Next ==
    \/ CreateEntity
    \/ RemoveEntity
    \/ AddComponent
    \/ RemoveComponent
    \/ Set
    \/ Get
    \/ AddThenRemoveComponent
    \/ CreateThenRemoveEntity

Spec == Init /\ [][Next]_vars

\* ------------------------------------------------------------ iteration

\* how many bulk iterations the caller starts, nested or in sequence
MaxIterations == 2

\* the template argument lists forEachComponents is called with
IterationLists == {<<0>>, <<0, 2>>}

\* a bulk iteration in progress: the loop over pools has passed the pools in
\* visited; in phase "callback" the callback runs for slot index of pool,
\* in phase "loop" the range-for is between two pools, in phase "returned"
\* the callback of forEachEarlyReturn has returned result, not yet tested.
\* invoked counts the callback invocations per entity version (per pool key
\* in forEachPool), and mutated
\* tells whether an operation changed the pools' entities meanwhile; id is
\* the handle the running callback was handed.
Frame(kind, Components) ==
    [kind |-> kind, Components |-> SeqToSet(Components), visited |-> {},
     pool |-> <<>>, index |-> 0, phase |-> "loop", result |-> FALSE,
     invoked |-> EmptyMap, mutated |-> FALSE, id |-> <<>>]

Top == stack[Len(stack)]

Pop == SubSeq(stack, 1, Len(stack) - 1)

ReplaceTop(frame) == [stack EXCEPT ![Len(stack)] = frame]

\* isIterating = true on entry of forEachPool, forEachComponents,
\* forEachComponentsEarlyReturn and forEachEntity
ForEachBegin(kind, Components) ==
    /\ fault = "none"
    /\ CallerRuns
    /\ begun < MaxIterations
    /\ begun' = begun + 1
    /\ isIterating' = TRUE
    /\ stack' = Append(stack, Frame(kind, Components))
    /\ last' = [op |-> kind, depth |-> Len(stack)]
    /\ UNCHANGED <<pools, entityRemappings, nextVersionIndex, held, abstract, fault, ops>>

ForEachPool == ForEachBegin("forEachPool", <<>>)

ForEachComponents ==
    \E Components \in IterationLists : ForEachBegin("forEachComponents", Components)

ForEachComponentsEarlyReturn ==
    \E Components \in IterationLists :
        ForEachBegin("forEachComponentsEarlyReturn", Components)

ForEachEntity == ForEachBegin("forEachEntity", <<>>)

\* the callback is invoked for the pool: forEachPool skips a pool of size 0,
\* forEachComponents* one without the components, and the slot loops of
\* forEach, forEachEarlyReturn and forEachEntity do not run on a pool of size 0
\* mutant: a pool of one entity is skipped
Invokes_SkipsSingletons(frame, pool) ==
    /\ pool.poolSize > 1
    /\ frame.kind \in {"forEachComponents", "forEachComponentsEarlyReturn"}
          => hasComponents(pool, frame.Components)

\* mutant: forEachPool does not test the size of the pool
Invokes_IncludesEmpty(frame, pool) ==
    /\ frame.kind # "forEachPool" => pool.poolSize > 0
    /\ frame.kind \in {"forEachComponents", "forEachComponentsEarlyReturn"}
          => hasComponents(pool, frame.Components)

Invokes(frame, pool) ==
    /\ pool.poolSize > 0
    /\ frame.kind \in {"forEachComponents", "forEachComponentsEarlyReturn"}
          => hasComponents(pool, frame.Components)

\* how often the callback was invoked for the entity of a version (for the
\* pool of a key)
Count(invoked, version) == IF version \in DOMAIN invoked THEN invoked[version] ELSE 0

\* mutant: the version is read from the back of the versions column
SynthesizedId_BackVersion(poolKey, pool, index) ==
    EntityId(index, pool.versions[Len(pool.versions)], poolKey, FALSE)

\* the handle the slot loops make for slot i: unstableIndex = i, version =
\* versions[i], poolKey, dead = false
SynthesizedId(poolKey, pool, index) ==
    EntityId(index, pool.versions[index + 1], poolKey, FALSE)

\* callback(id, ...) for slot index of the pool under key k: the frame is in
\* the callback, which has been handed the entity versions[index];
\* forEachPool hands its callback the pool. forEach and forEachEarlyReturn
\* take the pool's poolKey field, forEachEntity the key of the map entry
InvokeCallback(frame, k, index) ==
    [frame EXCEPT !.pool = <<k>>, !.index = index, !.phase = "callback",
                  !.result = FALSE,
                  !.id = IF frame.kind = "forEachPool" THEN <<>>
                         ELSE <<SynthesizedId(IF frame.kind = "forEachEntity" THEN k
                                              ELSE pools[k].poolKey,
                                              pools[k], index)>>,
                  !.invoked = IF frame.kind = "forEachPool"
                              THEN MapPut(@, k, Count(@, k) + 1)
                              ELSE MapPut(@, pools[k].versions[index + 1],
                                          Count(@, pools[k].versions[index + 1]) + 1)]

\* the range-for over pools comes to its next pool, in the map's order
NextPool ==
    /\ fault = "none"
    /\ stack # <<>>
    /\ Top.phase = "loop"
    /\ \E k \in (DOMAIN pools) \ Top.visited :
          stack' = ReplaceTop(
              IF Invokes(Top, pools[k])
              THEN InvokeCallback([Top EXCEPT !.visited = @ \cup {k}], k, 0)
              ELSE [Top EXCEPT !.visited = @ \cup {k}])
    /\ UNCHANGED <<pools, entityRemappings, nextVersionIndex, isIterating, held,
                   abstract, fault, last, ops, begun>>

\* the last statement of the entry point: isIterating = false, but
\* isIterating = true in forEachEntity
Leave ==
    /\ isIterating' = (Top.kind = "forEachEntity")
    /\ stack' = Pop
    /\ last' = [op |-> "return", kind |-> Top.kind, depth |-> Len(stack) - 1]
    /\ UNCHANGED <<pools, entityRemappings, nextVersionIndex, held, abstract, fault, ops,
                   begun>>

\* the range-for over pools is exhausted and the entry point returns
ForEachReturn ==
    /\ fault = "none"
    /\ stack # <<>>
    /\ Top.phase = "loop"
    /\ (DOMAIN pools) \ Top.visited = {}
    /\ Leave

\* after a callback: ++i and the test i < poolSize of the slot loop, which
\* reads the pool's size as it is now; forEachPool has no slot loop
AfterCallback ==
    /\ stack' = ReplaceTop(
          IF Top.kind # "forEachPool" /\ Top.index + 1 < pools[Top.pool[1]].poolSize
          THEN InvokeCallback(Top, Top.pool[1], Top.index + 1)
          ELSE [Top EXCEPT !.pool = <<>>, !.index = 0, !.phase = "loop",
                           !.result = FALSE, !.id = <<>>])
    /\ UNCHANGED <<pools, entityRemappings, nextVersionIndex, isIterating, held,
                   abstract, fault, last, ops, begun>>

\* the callback returns to the loop that invoked it; the callback of
\* forEachComponentsEarlyReturn returns a value: auto result = callback(...)
CallbackReturn ==
    /\ fault = "none"
    /\ stack # <<>>
    /\ Top.phase = "callback"
    /\ IF Top.kind = "forEachComponentsEarlyReturn"
       THEN /\ \E result \in BOOLEAN :
                  stack' = ReplaceTop([Top EXCEPT !.phase = "returned",
                                                  !.result = result])
            /\ UNCHANGED <<pools, entityRemappings, nextVersionIndex, isIterating,
                           held, abstract, fault, last, ops, begun>>
       ELSE AfterCallback

\* mutant: the result of the callback is ignored
ReturnsEarly_Never(result) == FALSE

\* if (result) return true, and in the loop over pools: if (...) break
ReturnsEarly(result) == result

\* forEachEarlyReturn tests the result of the callback: true leaves the slot
\* loop and the loop over pools, false goes on with ++i
EarlyReturnTest ==
    /\ fault = "none"
    /\ stack # <<>>
    /\ Top.phase = "returned"
    /\ IF ReturnsEarly(Top.result) THEN Leave ELSE AfterCallback

NextIter ==
    \/ CreateEntity
    \/ RemoveEntity
    \/ AddComponent
    \/ RemoveComponent
    \/ Set
    \/ Get
    \/ AddThenRemoveComponent
    \/ CreateThenRemoveEntity
    \/ ForEachPool
    \/ ForEachComponents
    \/ ForEachComponentsEarlyReturn
    \/ ForEachEntity
    \/ NextPool
    \/ ForEachReturn
    \/ CallbackReturn
    \/ EarlyReturnTest

SpecIter == Init /\ [][NextIter]_vars

\* the operations that make and empty pools, and getPool between them
NextGetPool ==
    \/ CreateEntity
    \/ RemoveEntity
    \/ AddComponent
    \/ RemoveComponent
    \/ GetPool

SpecGetPool == Init /\ [][NextGetPool]_vars

\* a caller that creates, destroys and relocates entities and reads through
\* either of the two handles it keeps of each, so that stale copies get
\* resolved, healed and dead-ended
NextHandles ==
    \/ CreateEntity
    \/ RemoveEntity
    \/ AddComponent
    \/ RemoveComponent
    \/ Get

SpecHandles == Init /\ [][NextHandles]_vars

\* a caller that also removes entities from the pools directly
NextPoolCalls ==
    \/ CreateEntity
    \/ RemoveEntity
    \/ AddComponent
    \/ RemoveComponent
    \/ PoolRemoveEntityCall

SpecPoolCalls == Init /\ [][NextPoolCalls]_vars

\* forEachEntity and forEachPool called between the operations of a caller
\* whose callbacks only look at what they are handed
NextSweep ==
    \/ stack = <<>> /\ CreateEntity
    \/ stack = <<>> /\ RemoveEntity
    \/ stack = <<>> /\ AddComponent
    \/ stack = <<>> /\ RemoveComponent
    \/ stack = <<>> /\ ForEachEntity
    \/ stack = <<>> /\ ForEachPool
    \/ NextPool
    \/ ForEachReturn
    \/ CallbackReturn

SpecSweep == Init /\ [][NextSweep]_vars

NextForEach ==
    \/ stack = <<>> /\ CreateEntity
    \/ stack = <<>> /\ RemoveEntity
    \/ stack = <<>> /\ AddComponent
    \/ stack = <<>> /\ RemoveComponent
    \/ stack = <<>> /\ ForEachComponents
    \/ stack = <<>> /\ ForEachComponentsEarlyReturn
    \/ NextPool
    \/ ForEachReturn
    \/ CallbackReturn
    \/ EarlyReturnTest

SpecForEach == Init /\ [][NextForEach]_vars

\* ------------------------------------------------------------- scenario

\* The caller runs one fixed program on an empty registry, with A, B, C the
\* types 0, 1, 2:  E1 = createEntity<A, B>; E2 = createEntity<A, C>;
\* E3 = createEntity<A>; addComponent<B>(E3, x); removeEntity(E1).
\* The component values, and the order in which E1's types are written, vary.
ScenarioLists == <<{<<0, 1>>, <<1, 0>>}, {<<0, 2>>}, {<<0>>}>>

ScenarioCreate ==
    /\ fault = "none"
    /\ ops < Len(ScenarioLists)
    /\ \E Components \in ScenarioLists[ops + 1] :
       \E entityComponents \in [1..Len(Components) -> Values] :
          CreateEntityWith(Components, entityComponents)

ScenarioAddComponent ==
    /\ fault = "none"
    /\ ops = 3
    /\ \E x \in Values : AddComponentTo(2, 1, x)

ScenarioRemoveEntity ==
    /\ fault = "none"
    /\ ops = 4
    /\ RemoveEntityOf(0)

NextScenario ==
    \/ ScenarioCreate
    \/ ScenarioAddComponent
    \/ ScenarioRemoveEntity

SpecScenario == Init /\ [][NextScenario]_vars

\* how many entities the caller of the next program creates first
MaxCrowd == 3

\* the template argument lists of that caller: most entities share a pool
CrowdLists == {<<0>>, <<0, 1>>}

\* The caller creates MaxCrowd entities and then destroys or relocates two:
\* EntityId e = registry.createEntity<...>(...), MaxCrowd times
CrowdCreate ==
    /\ fault = "none"
    /\ ops < MaxCrowd
    /\ \E Components \in CrowdLists :
       \E entityComponents \in CreateArguments(Components) :
          CreateEntityWith(Components, entityComponents)

\* registry.removeEntity(e) for any of them
CrowdRemoveEntity ==
    /\ fault = "none"
    /\ ops >= MaxCrowd
    /\ ops < MaxCrowd + 2
    /\ \E v \in Versions : RemoveEntityOf(v)

\* registry.addComponent<T>(e, x) for any of them
CrowdAddComponent ==
    /\ fault = "none"
    /\ ops >= MaxCrowd
    /\ ops < MaxCrowd + 2
    /\ \E v \in Versions, t \in TypeIndices, x \in Values : AddComponentTo(v, t, x)

NextCrowd ==
    \/ CrowdCreate
    \/ CrowdRemoveEntity
    \/ CrowdAddComponent

SpecCrowd == Init /\ [][NextCrowd]_vars

\* the usage example of main: after the three createEntity calls,
\* registry.addComponent<Component3>(entity1, Component3{})
UsageAddComponent ==
    /\ fault = "none"
    /\ ops = 3
    /\ \E x \in Values : AddComponentTo(0, 2, x)

\* registry.getPool<Component1, Component2, Component3>()
UsageGetPool ==
    /\ fault = "none"
    /\ ops = 4
    /\ GetPoolOf(<<0, 1, 2>>)

NextUsage ==
    \/ ScenarioCreate
    \/ UsageAddComponent
    \/ UsageGetPool

SpecUsage == Init /\ [][NextUsage]_vars

\* ----------------------------------------------------------------- claims

\* the slots <<pool key, index>> whose stored version is v
Occurrences(v) ==
    {ki \in UNION {{<<k, i>> : i \in 0..(Len(pools[k].versions) - 1)} : k \in DOMAIN pools} :
        pools[ki[1]].versions[ki[2] + 1] = v}

\* the versions stored in some pool
StoredVersions == UNION {SeqToSet(pools[k].versions) : k \in DOMAIN pools}

\* what get returns for entity v and type t in the plain map
AbstractGet(v, t) ==
    IF abstract[v].alive /\ t \in DOMAIN abstract[v].components
    THEN <<abstract[v].components[t]>>
    ELSE <<>>

MutatingOps == {"createEntity", "removeEntity", "addComponent", "removeComponent"}

\* C1: every non-tombstoned handle the caller holds of an entity that is still
\* alive (the one the operations rewrite, and a copy that went stale or was
\* healed at any earlier moment) resolves to the one slot that stores the
\* entity's version, and get through it returns the entity's own values.
C1_StaleHandlesHeal ==
    fault = "none" =>
        \A v \in Versions : \A c \in Copies :
            (abstract[v].alive /\ ~held[v][c].dead) =>
                LET res == resolveEntityId(Reg, held[v][c])
                IN  /\ res.ok
                    /\ res.entityId.version = v
                    /\ Occurrences(v) = {<<res.pool[1], res.entityId.unstableIndex>>}
                    /\ \A t \in TypeIndices :
                          get(Reg, held[v][c], t).note.found = AbstractGet(v, t)

\* removeEntity on another entity has just swapped a live entity into the
\* vacated slot: a handle of it is stale and resolves through the remapping table
C1_Witness ==
    /\ fault = "none"
    /\ last.op = "removeEntity"
    /\ last.note.kind = "removed"
    /\ \E v \in Versions \ {last.version} : \E c \in Copies :
          LET res == resolveEntityId(Reg, held[v][c])
          IN  /\ abstract[v].alive
              /\ ~held[v][c].dead
              /\ res.ok
              /\ res.hops = 1
              /\ <<held[v][c].poolKey, held[v][c].unstableIndex>> \notin Occurrences(v)

\* C2: after every operation the version of every entity created and not
\* destroyed is stored in exactly one slot of exactly one pool, the version of
\* a destroyed entity in none, and no other version is stored.
C2_ExactlyOneGroup ==
    fault = "none" =>
        /\ \A v \in Versions :
              Cardinality(Occurrences(v)) = IF abstract[v].alive THEN 1 ELSE 0
        /\ StoredVersions \subseteq Versions

\* a relocation has just moved an entity out of a pool that keeps another
\* entity, and the moved entity is stored in the destination pool only
C2_Witness ==
    /\ fault = "none"
    /\ last.op \in {"addComponent", "removeComponent"}
    /\ last.note.kind = "relocated"
    /\ last.note.result.wasSwapped
    /\ Occurrences(last.version) = {<<last.note.to, last.note.toIndex>>}
    /\ last.version \notin SeqToSet(pools[last.note.from].versions)

\* the type a relocation added: in use in the destination, not in the source
AddedTypes(note) == (DOMAIN note.destinationAtRemoval) \ (DOMAIN note.sourceRow)

Relocated ==
    /\ fault = "none"
    /\ last.op \in {"addComponent", "removeComponent"}
    /\ last.note.kind = "relocated"

\* C5 as claimed: when the source slot is removed, every column of the
\* destination slot, the added attribute's included, already holds its final value.
C5_DestinationCompleteBeforeRemoval ==
    Relocated =>
        last.note.destinationAtRemoval = Row(pools[last.note.to], last.note.toIndex)

\* C5 as amended: when the source slot is removed, every column the destination
\* shares with the source holds the source slot's value; the column of the
\* attribute addComponent adds still holds Component{} and receives the supplied
\* value after the removal.
C5_SharedColumnsBeforeRemoval ==
    Relocated =>
        /\ \A t \in DOMAIN last.note.destinationAtRemoval :
              last.note.destinationAtRemoval[t] =
                  IF t \in DOMAIN last.note.sourceRow THEN last.note.sourceRow[t]
                  ELSE <<DefaultValue>>
        /\ \A t \in DOMAIN last.note.destinationAtRemoval :
              Row(pools[last.note.to], last.note.toIndex)[t] =
                  IF t \in AddedTypes(last.note) THEN AbstractGet(last.version, t)
                  ELSE last.note.destinationAtRemoval[t]

\* addComponent has relocated an entity that shares a column with its old pool
\* and was given a value other than Component{}
C5_Witness ==
    /\ Relocated
    /\ last.op = "addComponent"
    /\ DOMAIN last.note.sourceRow # {}
    /\ \E t \in AddedTypes(last.note) :
          /\ last.note.destinationAtRemoval[t] = <<DefaultValue>>
          /\ Row(pools[last.note.to], last.note.toIndex)[t] # <<DefaultValue>>

\* the handles a caller can present for version v: the ones it holds, and
\* every non-tombstoned handle naming a slot index and an existing pool (or the
\* key 0 of a default EntityId)
Presentable(v) ==
    {EntityId(i, v, k, FALSE) : i \in 0..MaxVersion, k \in (DOMAIN pools) \cup {Zero64}}
        \cup (IF v \in DOMAIN held THEN {held[v][c] : c \in Copies} ELSE {})

\* C6: one call of resolveEntityId replaces the handle by a remap target at
\* most once and returns; every remap entry carries the version it is filed
\* under, so the target of an entry is never forwarded again.
C6_BoundedResolution ==
    fault = "none" =>
        /\ \A v \in 0..MaxVersion : \A h \in Presentable(v) :
              \A res \in {resolveEntityId(Reg, h)} : res.hops <= 1 /\ ~res.cut
        /\ \A v \in DOMAIN entityRemappings : entityRemappings[v].version = v

\* a handle is replaced once by its remap target, and the resolution then fails
\* at the target (the entity was relocated and later destroyed)
C6_Witness ==
    /\ fault = "none"
    /\ \E v \in Versions :
          LET res == resolveEntityId(Reg, held[v]["copy"])
          IN  res.hops = 1 /\ ~res.ok /\ res.entityId.dead

\* C7: once removeEntity has destroyed an entity, the handle it was given is
\* tombstoned, and every handle carrying the entity's version fails to resolve
\* whatever the remapping table holds: get finds nothing, and removeEntity,
\* addComponent, removeComponent and set through it leave every pool as it is.
C7_DestructionIsPermanent ==
    fault = "none" =>
        \A v \in Versions : ~abstract[v].alive =>
            /\ held[v][Primary].dead
            /\ \A h \in Presentable(v) :
                  /\ ~resolveEntityId(Reg, h).ok
                  /\ \A t \in TypeIndices : get(Reg, h, t).note.found = <<>>
                  /\ removeEntity(Reg, h).reg.pools = pools
                  /\ \A t \in TypeIndices :
                        /\ removeComponent(Reg, h, t).reg.pools = pools
                        /\ \A x \in Values :
                              /\ addComponent(Reg, h, t, x).reg.pools = pools
                              /\ set(Reg, h, t, x).reg.pools = pools

\* a destroyed entity of which the caller still holds an untouched copy that
\* names a slot now occupied by another entity, while remap entries exist
C7_Witness ==
    /\ fault = "none"
    /\ \E v \in Versions :
          /\ ~abstract[v].alive
          /\ ~held[v]["copy"].dead
          /\ entityRemappings # EmptyMap
          /\ held[v]["copy"].poolKey \in DOMAIN pools
          /\ held[v]["copy"].unstableIndex < pools[held[v]["copy"].poolKey].poolSize

\* the registry after the step
RegAfter == Registry(pools', entityRemappings', nextVersionIndex', isIterating')

\* a pointer's target, <<>> when the pool has no such column
Found(row, t) == IF t \in DOMAIN row THEN row[t] ELSE <<>>

\* C8: when removeEntity removes a slot that is not the last of a pool of two
\* or more, the entity that was last is afterwards stored at the vacated index
\* with the component values it had, and each handle captured for it before
\* resolves to that index and reads those values.
C8_SwapRemoval ==
    [][ (fault' = "none" /\ last'.op = "removeEntity" /\ last'.note.kind = "removed") =>
          LET k == last'.note.pool
              i == last'.note.index
              n == pools[k].poolSize
          IN  (n >= 2 /\ i < n - 1) =>
                LET w == pools[k].versions[n]
                    moved == Row(pools[k], n - 1)
                IN  /\ pools'[k].poolSize = n - 1
                    /\ pools'[k].versions[i + 1] = w
                    /\ Row(pools'[k], i) = moved
                    /\ \A c \in Copies : ~held[w][c].dead =>
                          LET res == resolveEntityId(RegAfter, held[w][c])
                          IN  /\ res.ok
                              /\ res.pool = <<k>>
                              /\ res.entityId.unstableIndex = i
                              /\ \A t \in TypeIndices :
                                    get(RegAfter, held[w][c], t).note.found = Found(moved, t)
      ]_vars

\* removeEntity has removed a slot below the last one, and the handle held for
\* the entity moved into it still names the old last index
C8_Witness ==
    /\ fault = "none"
    /\ last.op = "removeEntity"
    /\ last.note.kind = "removed"
    /\ last.note.result.wasSwapped
    /\ last.note.index < pools[last.note.pool].poolSize
    /\ \E w \in Versions \ {last.version} :
          /\ pools[last.note.pool].versions[last.note.index + 1] = w
          /\ ~held[w]["copy"].dead
          /\ held[w]["copy"].unstableIndex > last.note.index
          /\ resolveEntityId(Reg, held[w]["copy"]).ok

\* C9: when addComponent of a type the entity lacks (an entity of {A, B} and
\* the type C among them) is followed by removeComponent of that type, both
\* relocate the entity, and it then resolves into the pool it was in at the
\* start, with the values of its components as they were, whatever else the
\* pools hold.
C9_RelocationRoundTrip ==
    (fault = "none" /\ last.op = "addThenRemoveComponent" /\ last.note.first = "relocated") =>
        /\ last.note.kind = "relocated"
        /\ \A res \in {resolveEntityId(Reg, held[last.version][Primary])} :
              /\ res.ok
              /\ res.pool = <<last.note.origin[1]>>
              /\ pools[res.pool[1]].componentsInUseBitmask = DOMAIN last.note.origin[2]
              /\ Row(pools[res.pool[1]], res.entityId.unstableIndex) = last.note.origin[2]
              /\ \A t \in TypeIndices :
                    get(Reg, held[last.version][Primary], t).note.found
                        = Found(last.note.origin[2], t)

\* an entity of two components went through addComponent and removeComponent of
\* a third, both of which relocated it, while another entity shares its pool
C9_Witness ==
    /\ fault = "none"
    /\ last.op = "addThenRemoveComponent"
    /\ last.note.first = "relocated"
    /\ last.note.kind = "relocated"
    /\ Cardinality(DOMAIN abstract[last.version].components) = 2
    /\ \E ki \in Occurrences(last.version) :
          /\ pools[ki[1]].poolSize >= 2
          /\ \A t \in DOMAIN abstract[last.version].components :
                Row(pools[ki[1]], ki[2])[t] = <<last.version + 1>>

\* C10: createEntity followed by removeEntity of the handle it returned leaves
\* every pool with the entity count it had before; a pool the creation brought
\* into being counts as 0 before.
C10_CreateDestroyRoundTrip ==
    (fault = "none" /\ last.op = "createThenRemoveEntity" /\ last.note.first = "created") =>
        /\ last.note.kind = "removed"
        /\ DOMAIN last.note.sizes \subseteq DOMAIN pools
        /\ \A k \in DOMAIN pools :
              /\ pools[k].poolSize =
                    IF k \in DOMAIN last.note.sizes THEN last.note.sizes[k] ELSE 0
              /\ Len(pools[k].versions) = pools[k].poolSize

\* an entity was created into a populated pool and destroyed at once
C10_Witness ==
    /\ fault = "none"
    /\ last.op = "createThenRemoveEntity"
    /\ last.note.kind = "removed"
    /\ pools[last.note.pool].poolSize >= 1
    /\ ~abstract[last.version].alive
    /\ Cardinality(DOMAIN pools) >= 2

\* C3 as claimed: a createEntity, removeEntity, addComponent or removeComponent
\* call made inside the callback of a bulk iteration is rejected by fi_assert,
\* which aborts the process.
C3_MutationInCallbackRejected ==
    (last.op \in MutatingOps /\ last.depth > 0) =>
        (last.note.kind = "rejected" /\ fault = "assert")

\* C4 as claimed: when a bulk iteration has returned isIterating is false, and
\* a mutating call made next, outside any callback, is not rejected.
C4_IteratingClearedOnReturn ==
    /\ last.op = "return" => ~isIterating
    /\ (last.op \in MutatingOps /\ last.depth = 0) => last.note.kind # "rejected"

\* the key of the pool of a component set
KeyOf(Components) == generateComponentPoolKeyFromTemplate(Components).key

\* C11: in the program E1{A,B}, E2{A,C}, E3{A}, addComponent<B>(E3),
\* removeEntity(E1): after the creations the pools {A,B}, {A,C} and {A} hold
\* one entity each; after the addition E3 resolves into {A,B} next to E1 and
\* {A} is empty; after the removal {A,B} holds one slot with E3's values, and
\* E3's handle and the copy taken at its creation resolve to it in one remap hop.
C11_Scenario ==
    LET AB == KeyOf(<<0, 1>>)
        AC == KeyOf(<<0, 2>>)
        A  == KeyOf(<<0>>)
    IN  /\ fault = "none"
        /\ ops >= 3 =>
              /\ DOMAIN pools = {AB, AC, A}
              /\ pools[AC].versions = <<1>>
        /\ ops = 3 => pools[AB].versions = <<0>> /\ pools[A].versions = <<2>>
        /\ ops = 4 =>
              /\ pools[AB].versions = <<0, 2>>
              /\ pools[A].poolSize = 0 /\ pools[A].versions = <<>>
              /\ \A c \in Copies : \A res \in {resolveEntityId(Reg, held[2][c])} :
                    res.ok /\ res.pool = <<AB>> /\ res.entityId.unstableIndex = 1
        /\ ops = 5 =>
              /\ pools[AB].poolSize = 1
              /\ pools[AB].versions = <<2>>
              /\ \A t \in {0, 1} :
                    pools[AB].components[t] = <<abstract[2].components[t]>>
              /\ pools[A].poolSize = 0
              /\ \A c \in Copies : \A res \in {resolveEntityId(Reg, held[2][c])} :
                    /\ res.ok /\ res.hops = 1
                    /\ res.pool = <<AB>> /\ res.entityId.unstableIndex = 0
                    /\ \A t \in TypeIndices :
                          get(Reg, held[2][c], t).note.found = AbstractGet(2, t)

\* the program has run to its end, E3 was given values other than Component{},
\* and its handle still names the slot it had before E1 was removed
C11_Witness ==
    /\ fault = "none"
    /\ ops = 5
    /\ last.op = "removeEntity"
    /\ last.note.kind = "removed"
    /\ last.note.result.wasSwapped
    /\ held[2][Primary].unstableIndex = 1
    /\ abstract[2].components = (0 :> 1 @@ 1 :> 1)

\* the handles of version v that name a slot of a pool, or the index one past
\* its last slot, and the handles the caller holds
SlotHandles(v) ==
    UNION {{EntityId(i, v, k, FALSE) : i \in 0..pools[k].poolSize} : k \in DOMAIN pools}
        \cup {held[v][c] : c \in Copies}

\* C12: for every handle the caller holds or can aim at a slot and every type T, get<T>
\* returns nullptr exactly when the handle does not resolve or the pool it
\* resolves into has no T column, and otherwise the T value stored at the slot
\* that holds the handle's version; set<T> writes exactly when get<T> finds a
\* value and otherwise leaves every pool as it is; get changes no pool, and
\* neither call ends the process.
C12_GetSetNotFound ==
    fault = "none" =>
        \A v \in Versions : \A h \in SlotHandles(v) :
        \A res \in {resolveEntityId(Reg, h)} :
        \A t \in TypeIndices :
        \A g \in {get(Reg, h, t)} :
            /\ g.fault = "none"
            /\ g.reg.pools = pools
            /\ (g.note.found = <<>>) <=>
                  (~res.ok \/ t \notin pools[res.pool[1]].componentsInUseBitmask)
            /\ g.note.found # <<>> =>
                  \E ki \in Occurrences(v) :
                      g.note.found = <<pools[ki[1]].components[t][ki[2] + 1]>>
            /\ \A x \in Values : \A w \in {set(Reg, h, t, x)} :
                  /\ w.fault = "none"
                  /\ (w.note.kind = "notfound") <=> (g.note.found = <<>>)
                  /\ w.note.kind = "notfound" => w.reg.pools = pools

\* the caller has just called get through a handle that resolves, for a type
\* the entity's pool does not hold, and got nullptr; another handle it holds
\* does not resolve at all
C12_Witness ==
    /\ fault = "none"
    /\ last.op = "get"
    /\ last.note.found = <<>>
    /\ abstract[last.version].alive
    /\ resolveEntityId(Reg, held[last.version][Primary]).ok
    /\ \E v \in Versions : ~abstract[v].alive /\ ~held[v]["copy"].dead

\* the step is a call of op through the handle of a live entity, and the call
\* was not rejected
LiveCall(op) ==
    /\ fault' = "none"
    /\ last'.op = op
    /\ ops' = ops + 1
    /\ abstract[last'.version].alive
    /\ ~held[last'.version][Primary].dead

\* C13: addComponent<T>(h, x) on an entity that has T takes the overwrite
\* branch and changes one stored value only, the T value at the entity's slot,
\* which becomes x: the entity's pool and slot, the set of pools, every pool's
\* size and versions, every other value and the remap table stay as they are.
C13_AddPresentOverwrites ==
    [][ (/\ LiveCall("addComponent")
         /\ DOMAIN abstract'[last'.version].components
               = DOMAIN abstract[last'.version].components) =>
          /\ last'.note.kind = "overwritten"
          /\ entityRemappings' = entityRemappings
          /\ \E ki \in Occurrences(last'.version) :
             \E t \in pools[ki[1]].componentsInUseBitmask :
                pools' = [pools EXCEPT ![ki[1]].components[t][ki[2] + 1] =
                                          abstract'[last'.version].components[t]]
      ]_vars

\* addComponent has just overwritten a value of an entity that shares its pool
\* with another entity, with a value other than the one it had
C13_Witness ==
    /\ fault = "none"
    /\ last.op = "addComponent"
    /\ last.note.kind = "overwritten"
    /\ \E ki \in Occurrences(last.version) :
          /\ pools[ki[1]].poolSize >= 2
          /\ \E t \in pools[ki[1]].componentsInUseBitmask :
                pools[ki[1]].components[t][ki[2] + 1] # last.version + 1

\* C14: removeComponent<T>(h) on an entity that lacks T does nothing to the
\* store: no pool is created, and every pool and the remap table stay as they are.
C14_RemoveAbsentNoOp ==
    [][ (/\ LiveCall("removeComponent")
         /\ abstract'[last'.version] = abstract[last'.version]) =>
          /\ last'.note.kind = "absent"
          /\ pools' = pools
          /\ entityRemappings' = entityRemappings
      ]_vars

\* removeComponent has just been called for a type the entity lacks, through
\* a handle that was stale, in a store that has remap entries
C14_Witness ==
    /\ fault = "none"
    /\ last.op = "removeComponent"
    /\ last.note.kind = "absent"
    /\ entityRemappings # EmptyMap
    /\ held[last.version][Primary] # held[last.version]["copy"]

\* C15: addComponent<T>(h, x) on a live entity that lacks T rewrites h so that
\* it resolves without a remap hop, with the version it had, to the last slot
\* of the pool whose component set is the old set plus T; get<T>(h) is x and
\* every component the entity had reads the value it had before the call.
C15_AddAbsentRewritesHandle ==
    [][ (/\ LiveCall("addComponent")
         /\ DOMAIN abstract'[last'.version].components
               # DOMAIN abstract[last'.version].components) =>
          LET v == last'.version
              h == held'[v][Primary]
          IN  \A res \in {resolveEntityId(RegAfter, h)} :
              \E ki \in Occurrences(v) :
                 LET old == Row(pools[ki[1]], ki[2])
                 IN  /\ last'.note.kind = "relocated"
                     /\ res.ok /\ res.hops = 0
                     /\ res.entityId = h
                     /\ h.version = v
                     /\ h.unstableIndex = pools'[h.poolKey].poolSize - 1
                     /\ pools'[h.poolKey].componentsInUseBitmask
                           = DOMAIN abstract'[v].components
                     /\ DOMAIN abstract'[v].components \ DOMAIN old # {}
                     /\ \A t \in TypeIndices :
                           get(RegAfter, h, t).note.found =
                               IF t \in DOMAIN old THEN old[t]
                               ELSE IF t \in DOMAIN abstract'[v].components
                                    THEN <<abstract'[v].components[t]>>
                                    ELSE <<>>
      ]_vars

\* addComponent has just moved an entity into a pool that already held another
\* entity, and the handle names the new slot while the copy names the old one
C15_Witness ==
    /\ Relocated
    /\ last.op = "addComponent"
    /\ last.note.toIndex >= 1
    /\ held[last.version]["copy"].poolKey = last.note.from
    /\ held[last.version][Primary].poolKey = last.note.to
    /\ held[last.version][Primary].unstableIndex = last.note.toIndex

\* hash words to combine: the type hashes and the two extreme words
HashSamples ==
    {TypeHash[t] : t \in TypeIndices} \cup {Zero64, <<Limb - 1, Limb - 1, Limb - 1, Limb - 1>>}

\* the lists of up to NumTypes sample words, repetitions included
SampleVectors == UNION {[1..n -> HashSamples] : n \in 0..NumTypes}

\* the list with the elements at i and j exchanged
Exchange(hs, i, j) == [hs EXCEPT ![i] = hs[j], ![j] = hs[i]]

\* the lists to which combineHashes gives another key than to one of their
\* permutations (every permutation is a product of exchanges), computed once
OrderDependentVectors ==
    {hs \in SampleVectors : \E i, j \in DOMAIN hs :
        combineHashes(Exchange(hs, i, j)) # combineHashes(hs)}

\* the template argument lists that name the component set S
Orderings(S) ==
    {p \in UNION {[1..n -> TypeIndices] : n \in 0..NumTypes} :
        Len(p) = Cardinality(S) /\ SeqToSet(p) = S}

\* the component sets whose orderings do not all give one key, computed once
AmbiguousSets ==
    {S \in SUBSET TypeIndices : Cardinality({KeyOf(p) : p \in Orderings(S)}) # 1}

\* C16: combineHashes returns the same key for every permutation of a list of
\* hashes, and every ordering of a component set the same key; hence whether
\* createEntity<A,B>, createEntity<B,A>, addComponent or removeComponent asks
\* for a set, the pool is the same: each pool keeps the hashes of its set in
\* some order, under the key it is filed under, and no two pools have one set.
C16_OrderIndependentKey ==
    /\ OrderDependentVectors = {}
    /\ AmbiguousSets = {}
    /\ \A k \in DOMAIN pools :
          /\ pools[k].poolKey = k
          /\ SeqToSet(pools[k].componentHashes)
                = {TypeHash[t] : t \in pools[k].componentsInUseBitmask}
    /\ \A k1, k2 \in DOMAIN pools :
          pools[k1].componentsInUseBitmask = pools[k2].componentsInUseBitmask => k1 = k2

\* a pool made by createEntity<B, A>, whose hashes are kept in that order, has
\* just received a second entity by addComponent<B> on an entity of {A}
C16_Witness ==
    /\ Relocated
    /\ last.op = "addComponent"
    /\ pools[last.note.to].componentsInUseBitmask = {0, 1}
    /\ pools[last.note.to].componentHashes = <<TypeHash[1], TypeHash[0]>>
    /\ pools[last.note.to].poolSize = 2
    /\ pools[last.note.from].componentHashes = <<TypeHash[0]>>

\* the operations that ask for a pool by its component set and make it when
\* it is missing
PoolMakingOps ==
    {"createEntity", "addComponent", "removeComponent",
     "addThenRemoveComponent", "createThenRemoveEntity"}

\* getPool<Components...>() for the component set of the pool under key k,
\* after the step
PoolOfSetAfter(k) == getPool(RegAfter, BitmaskIndices(pools'[k].componentsInUseBitmask, 0))

\* C17: pools are made on request and never destroyed: over every step the set
\* of pool keys only grows, and only createEntity, addComponent and
\* removeComponent add a key; the component set of an existing pool stays as
\* it is; and a pool that a step makes or empties is, after the step, the
\* pool getPool returns for its component set, an emptied one with size 0.
C17_PoolsNeverDestroyed ==
    [][ /\ DOMAIN pools \subseteq DOMAIN pools'
        /\ (DOMAIN pools' # DOMAIN pools) => last'.op \in PoolMakingOps
        /\ \A k \in DOMAIN pools :
              /\ pools'[k].componentsInUseBitmask = pools[k].componentsInUseBitmask
              /\ (pools[k].poolSize > 0 /\ pools'[k].poolSize = 0)
                    => PoolOfSetAfter(k) = <<pools'[k]>>
        /\ \A k \in (DOMAIN pools') \ (DOMAIN pools) :
              PoolOfSetAfter(k) = <<pools'[k]>>
      ]_vars

\* an entity was relocated out of its first pool and then destroyed in its
\* second: both pools are still there, empty
C17_Witness ==
    /\ last.op = "removeEntity"
    /\ last.note.kind = "removed"
    /\ last.note.result.success
    /\ Cardinality(DOMAIN pools) >= 2
    /\ \A k \in DOMAIN pools : pools[k].poolSize = 0

\* the live entities whose component set includes the set S
Matching(S) ==
    {v \in DOMAIN abstract :
        abstract[v].alive /\ S \subseteq DOMAIN abstract[v].components}

\* C18: while forEachComponents<S...> runs and no operation has changed the
\* pools' entities since it began, its callback has been invoked at most once
\* per entity and only for live entities that have every type of S; when it
\* returns, the callback has been invoked exactly once for each of them.
C18_ForEachComponentsOncePerMatch ==
    [][ \A d \in DOMAIN stack :
          (stack[d].kind = "forEachComponents" /\ ~stack[d].mutated) =>
              /\ \A v \in DOMAIN stack[d].invoked :
                    /\ v \in Matching(stack[d].Components)
                    /\ stack[d].invoked[v] = 1
              /\ (d = Len(stack) /\ stack' = Pop) =>
                    DOMAIN stack[d].invoked = Matching(stack[d].Components)
      ]_vars

\* forEachComponents<A, C> has come to the end of its loop over the pools
\* and has invoked its callback, while a live entity lacks C
C18_Witness ==
    /\ stack # <<>>
    /\ Top.kind = "forEachComponents"
    /\ Top.Components = {0, 2}
    /\ ~Top.mutated
    /\ Top.phase = "loop"
    /\ (DOMAIN pools) \ Top.visited = {}
    /\ Top.invoked # EmptyMap
    /\ \E v \in DOMAIN abstract : abstract[v].alive /\ v \notin Matching(Top.Components)

\* C19: in forEachComponentsEarlyReturn, a callback result of true is held
\* only by the innermost iteration, between the callback's return and the
\* test of the result, and the step taken then ends that iteration: no
\* callback is invoked for a later slot or another pool.
C19_EarlyReturnStops ==
    [][ /\ \A d \in DOMAIN stack :
              stack[d].result =>
                  /\ d = Len(stack)
                  /\ stack[d].kind = "forEachComponentsEarlyReturn"
                  /\ stack[d].phase = "returned"
        /\ (stack # <<>> /\ Top.phase = "returned" /\ Top.result) =>
              /\ stack' = Pop
              /\ last' = [op |-> "return", kind |-> "forEachComponentsEarlyReturn",
                          depth |-> Len(stack) - 1]
      ]_vars

\* a callback of forEachComponentsEarlyReturn has returned true while a
\* matching live entity has not been handed to the callback yet
C19_Witness ==
    /\ stack # <<>>
    /\ Top.kind = "forEachComponentsEarlyReturn"
    /\ Top.phase = "returned"
    /\ Top.result
    /\ ~Top.mutated
    /\ Matching(Top.Components) \ DOMAIN Top.invoked # {}

\* the versions assigned so far: those of the handles the callers were
\* returned, of the slots of the pools and of the remapping table
AssignedVersions ==
    {held[u][c].version : u \in DOMAIN held, c \in Copies}
        \cup StoredVersions
        \cup (DOMAIN entityRemappings)
        \cup {entityRemappings[r].version : r \in DOMAIN entityRemappings}

\* C20: versions are unique and never reused: the handles returned by two
\* createEntity calls differ in version, a version is stored in at most one
\* slot, and over every step: createEntity returns a version greater than
\* every version assigned before, every handle keeps its version, and the
\* slot an entity is relocated to by addComponent or removeComponent is
\* stamped with the version it had.
C20_VersionsUnique ==
    [][ /\ \A u, w \in DOMAIN held :
              held[u][Primary].version = held[w][Primary].version => u = w
        /\ \A v \in StoredVersions : Cardinality(Occurrences(v)) = 1
        /\ (last'.op = "createEntity" /\ last'.note.kind = "created"
                /\ ops' = ops + 1) =>
              \A v \in AssignedVersions : held'[last'.version][Primary].version > v
        /\ \A u \in DOMAIN held : \A c \in Copies :
              held'[u][c].version = held[u][c].version
        /\ (last'.op \in {"addComponent", "removeComponent"}
                /\ last'.note.kind = "relocated" /\ fault' = "none"
                /\ ops' = ops + 1) =>
              pools'[last'.note.to].versions[last'.note.toIndex + 1]
                  = held[last'.version][Primary].version
      ]_vars

\* the second entity created has been relocated by addComponent or
\* removeComponent, and both handles have the versions they were created with
C20_Witness ==
    /\ Relocated
    /\ last.version = 1
    /\ nextVersionIndex = 2
    /\ held[0][Primary].version = 0
    /\ held[1][Primary].version = 1
    /\ pools[last.note.to].versions[last.note.toIndex + 1] = 1

\* the component sets for which a pool has been materialized
MaterializedSets == {pools[k].componentsInUseBitmask : k \in DOMAIN pools}

\* C21: getPool<S...>() for a component set for which no pool was ever
\* materialized returns nullptr, creates no pool and changes nothing of the
\* registry or of the caller's handles, and does not abort.
C21_GetPoolOfUnknownSet ==
    [][ (last'.op = "getPool" /\ ops' = ops + 1
            /\ last'.note.Components \notin MaterializedSets) =>
              /\ last'.note.kind = "notfound"
              /\ last'.note.pool = <<>>
              /\ RegAfter = Reg
              /\ held' = held
              /\ fault' = "none"
      ]_vars

\* getPool<B, C> has just returned nullptr while other pools hold entities,
\* one of them an emptied pool
C21_Witness ==
    /\ last.op = "getPool"
    /\ last.note.kind = "notfound"
    /\ last.note.Components = {1, 2}
    /\ \E k \in DOMAIN pools : pools[k].poolSize = 0
    /\ \E k \in DOMAIN pools : pools[k].poolSize > 0

\* C22 as claimed: in the usage example, getPool<Component1, Component2,
\* Component3>() after addComponent<Component3>(entity1) returns a pool whose
\* size() is 0.
C22_UsagePoolSizeZero ==
    (last.op = "getPool" /\ ops = 5) =>
        /\ last.note.kind = "found"
        /\ last.note.pool[1].poolSize = 0

\* C23 as claimed: from the beginning of the outermost bulk iteration until
\* its return, isIterating is true at every point of every callback, also
\* after a nested bulk iteration has been started and completed.
C23_NestedIterationKeepsLock ==
    (stack # <<>> /\ fault = "none") => isIterating

\* C24 as claimed: ComponentPool::removeEntity reports wasSwapped exactly
\* when another entity, the previously last one, was moved into the vacated
\* slot, and then reports that entity's version and new index; removing the
\* last slot of a pool reports no swap.
C24_SwapReportedOnlyOnSwap ==
    (fault = "none" /\ last.op = "removeEntity" /\ last.note.kind = "removed"
        /\ last.note.result.success) =>
        LET pool == pools[last.note.pool]
            index == last.note.index
            result == last.note.result
        IN  /\ result.wasSwapped = (index < pool.poolSize)
            /\ result.wasSwapped =>
                  /\ result.swappedEntityVersion = <<pool.versions[index + 1]>>
                  /\ result.swappedEntityUnstableIndex = <<index>>

\* C25 as claimed: Registry::removeEntity changes the remap table only when
\* a swap occurred, and then only the entry of the other entity, which was
\* moved into the vacated slot: afterwards that entry is (vacated slot, this
\* pool's key, that entity's version); no entry is made or changed for the
\* destroyed entity or for a third one.
C25_RemoveEntityRemapFrame ==
    [][ (last'.op = "removeEntity" /\ ops' = ops + 1 /\ fault' = "none"
            /\ last'.note.kind = "removed" /\ last'.note.result.success) =>
          LET key == last'.note.pool
              index == last'.note.index
          IN  IF index < pools'[key].poolSize
              THEN entityRemappings' =
                      MapPut(entityRemappings, pools'[key].versions[index + 1],
                             EntityId(index, pools'[key].versions[index + 1], key, FALSE))
              ELSE entityRemappings' = entityRemappings
      ]_vars

\* C26: in every reachable state the remap entry of every live entity that
\* has one names the pool and the slot that hold the entity now, carries the
\* version it is filed under, and is not tombstoned.
C26_RemapEntriesCurrent ==
    fault = "none" =>
        \A v \in DOMAIN entityRemappings :
            (v \in DOMAIN abstract /\ abstract[v].alive) =>
                /\ entityRemappings[v].version = v
                /\ ~entityRemappings[v].dead
                /\ Occurrences(v) = {<<entityRemappings[v].poolKey,
                                       entityRemappings[v].unstableIndex>>}

\* a live entity's entry, made when the entity was swapped into a vacated slot
\* or relocated, has been replaced by a later relocation; an older handle of
\* the entity names neither place
C26_Witness ==
    /\ Relocated
    /\ abstract[last.version].alive
    /\ last.version \in DOMAIN entityRemappings
    /\ entityRemappings[last.version].poolKey = last.note.to
    /\ held[last.version]["copy"].poolKey \notin {last.note.to, last.note.from}

\* the values stored for the entity of version u in the pools ps
ValuesOf(ps, u) ==
    UNION {{Row(ps[k], i - 1) : i \in {j \in 1..Len(ps[k].versions) : ps[k].versions[j] = u}} :
              k \in DOMAIN ps}

\* C27: a relocation by addComponent or removeComponent changes at most two
\* remap entries: the entry of the moved entity, which afterwards equals the
\* new handle, and, when another entity was swapped into the vacated source
\* slot, the entry of that entity; every other entry, every pool other than
\* source and destination and the values of every other entity stay the same.
C27_RelocationFrame ==
    [][ (last'.op \in {"addComponent", "removeComponent"} /\ ops' = ops + 1
            /\ last'.note.kind = "relocated" /\ fault' = "none") =>
          LET from == last'.note.from
              to == last'.note.to
              fromIndex == last'.note.fromIndex
              toIndex == last'.note.toIndex
              v == pools'[to].versions[toIndex + 1]
              newHandle == EntityId(toIndex, v, to, FALSE)
              others == IF fromIndex < pools'[from].poolSize
                        THEN MapPut(entityRemappings, pools'[from].versions[fromIndex + 1],
                                    EntityId(fromIndex, pools'[from].versions[fromIndex + 1],
                                             from, FALSE))
                        ELSE entityRemappings
          IN  /\ v = last'.version
              /\ entityRemappings' = MapPut(others, v, newHandle)
              /\ held'[v][Primary] = newHandle
              /\ DOMAIN pools' = (DOMAIN pools) \cup {to}
              /\ \A k \in (DOMAIN pools) \ {from, to} : pools'[k] = pools[k]
              /\ \A u \in StoredVersions \ {v} : ValuesOf(pools', u) = ValuesOf(pools, u)
      ]_vars

\* a relocation has moved an entity out of a slot below the last one of its
\* pool: the remap table has the entry of the moved entity and the entry of
\* the entity swapped into the vacated slot
C27_Witness ==
    /\ Relocated
    /\ last.note.fromIndex < pools[last.note.from].poolSize
    /\ Cardinality(DOMAIN entityRemappings) = 2
    /\ entityRemappings[last.version].poolKey = last.note.to
    /\ \E w \in (DOMAIN entityRemappings) \ {last.version} :
          entityRemappings[w].poolKey = last.note.from

\* C28: after every operation, in every pool each column of a type in the
\* pool's bitmask has length poolSize, the versions column has length
\* poolSize, and each column of a type not in the bitmask has length 0.
C28_ColumnLengths ==
    fault = "none" =>
        \A k \in DOMAIN pools :
            /\ Len(pools[k].versions) = pools[k].poolSize
            /\ SeqToSet(pools[k].componentsInUseIndices) = pools[k].componentsInUseBitmask
            /\ \A t \in TypeIndices :
                  Len(pools[k].components[t]) =
                      IF t \in pools[k].componentsInUseBitmask THEN pools[k].poolSize ELSE 0

\* a pool of two components has received an entity by relocation and holds
\* two, while the pool the entity came from has shrunk to none
C28_Witness ==
    /\ Relocated
    /\ pools[last.note.to].poolSize = 2
    /\ Cardinality(pools[last.note.to].componentsInUseBitmask) = 2
    /\ pools[last.note.from].poolSize = 0
    /\ pools[last.note.from].componentsInUseBitmask # {}

\* the handle h fails the direct check of its pool
FailsDirectCheck(h) ==
    ~(h.poolKey \in DOMAIN pools /\ isValid(pools[h.poolKey], h))

\* the handle h is at the terminal dead end: not tombstoned, it fails the
\* direct check and the remap entry of its version is identical to it
AtDeadEnd(h) ==
    /\ ~h.dead
    /\ FailsDirectCheck(h)
    /\ h.version \in DOMAIN entityRemappings
    /\ isIdentical(entityRemappings[h.version], h)

\* C29: for every handle the caller holds or can aim at a slot: when it is at
\* the terminal dead end, resolution fails, tombstones the handle and the
\* remap entry and changes nothing else, and the entity is not alive; a
\* handle of a live entity is never tombstoned by a resolution, nor is its
\* remap entry.
C29_TerminalDeadEnd ==
    fault = "none" =>
        \A v \in Versions : \A h \in SlotHandles(v) :
        \A res \in {resolveEntityId(Reg, h)} :
            /\ AtDeadEnd(h) =>
                  /\ ~res.ok
                  /\ res.entityId = [h EXCEPT !.dead = TRUE]
                  /\ res.entityRemappings = [entityRemappings EXCEPT ![v].dead = TRUE]
                  /\ ~abstract[v].alive
            /\ (abstract[v].alive /\ ~h.dead) =>
                  /\ ~res.entityId.dead
                  /\ res.entityRemappings = entityRemappings

\* the copy of the handle of a destroyed entity is at the terminal dead end:
\* the remap table holds an entry identical to it
C29_Witness ==
    /\ fault = "none"
    /\ \E v \in Versions :
          /\ ~abstract[v].alive
          /\ held[v][Primary].dead
          /\ AtDeadEnd(held[v]["copy"])
          /\ ~entityRemappings[v].dead

\* the handles tried: those the caller holds, those of the version not yet
\* assigned aimed at every slot of every pool and at no pool, and the
\* tombstoned ones of all of them
TriedHandles ==
    LET live == {held[v][c] : v \in DOMAIN held, c \in Copies}
                   \cup UNION {{EntityId(i, nextVersionIndex, k, FALSE) :
                                   i \in 0..pools[k].poolSize} : k \in DOMAIN pools}
                   \cup {EntityId(0, nextVersionIndex, Zero64, FALSE)}
    IN  live \cup {[h EXCEPT !.dead = TRUE] : h \in live}

\* what a call with the unresolvable handle h may have done: no abort, every
\* pool as it was, and for a tombstoned h the registry and the handle as they
\* were
Unaffected(h, out) ==
    /\ out.fault = "none"
    /\ out.reg.pools = pools
    /\ h.dead => (out.reg = Reg /\ out.entityId = h)

Refused(pool, id) ==
    IF pool.poolSize = 0 THEN TRUE
    ELSE IF id.dead THEN TRUE
    ELSE IF id.unstableIndex >= pool.poolSize THEN TRUE
    ELSE pool.versions[id.unstableIndex + 1] # id.version

\* C31: ComponentPool::removeEntity called on an empty pool, or with a handle
\* that is tombstoned, out of bounds or of another version than the one stored
\* at its slot, reports success = false and wasSwapped = false and leaves the
\* pool's size, versions and columns (and every other pool) as they were.
C31_PoolRemoveEntityRefuses ==
    [][(/\ last'.op = "pool.removeEntity"
        /\ Refused(last'.note.pool, last'.note.entityId))
       => (/\ ~last'.note.result.success
           /\ ~last'.note.result.wasSwapped
           /\ pools' = pools
           /\ fault' = "none")]_vars

\* the pool was handed a live-looking handle of a slot in bounds whose stored
\* version is another entity's, and refused it
C31_Witness ==
    /\ last.op = "pool.removeEntity"
    /\ last.note.pool.poolSize > 1
    /\ ~last.note.entityId.dead
    /\ last.note.entityId.unstableIndex < last.note.pool.poolSize
    /\ last.note.pool.versions[last.note.entityId.unstableIndex + 1]
          # last.note.entityId.version
    /\ ~last.note.result.success

\* the step invokes the callback of a slot loop: for the first slot when the
\* loop over pools comes to a pool, for the next slot after a callback
Invoking ==
    /\ stack' # <<>>
    /\ Len(stack') = Len(stack)
    /\ Top'.phase = "callback"
    /\ Top'.kind # "forEachPool"
    /\ <<Top'.phase, Top'.pool, Top'.index>> # <<Top.phase, Top.pool, Top.index>>

\* the step ends the slot loop of a pool because i < poolSize failed
SlotLoopEnds ==
    /\ stack # <<>>
    /\ Len(stack') = Len(stack)
    /\ Top.phase \in {"callback", "returned"}
    /\ Top.kind # "forEachPool"
    /\ Top'.phase = "loop"

\* C32: within one pool forEach and forEachEarlyReturn invoke the callback for
\* slot 0 first, then for each next slot, up to slot poolSize - 1 unless the
\* callback asks to stop; the handle handed to the callback names the slot, the
\* version stored there and the pool's key, is not tombstoned, passes isValid
\* in that pool at that instant and resolves to itself without a remap hop.
C32_ForEachSlotOrder ==
    [][/\ Invoking =>
             LET f == Top'
                 k == f.pool[1]
                 id == f.id[1]
                 res == resolveEntityId(RegAfter, id)
             IN  /\ f.index = IF Top.pool = f.pool THEN Top.index + 1 ELSE 0
                 /\ id.unstableIndex = f.index
                 /\ id.version = pools'[k].versions[f.index + 1]
                 /\ id.poolKey = k
                 /\ ~id.dead
                 /\ isValid(pools'[k], id)
                 /\ res.ok /\ res.hops = 0 /\ res.entityId = id /\ res.pool = <<k>>
       /\ SlotLoopEnds => Top.index + 1 = pools[Top.pool[1]].poolSize]_vars

\* the callback runs for the second slot of a pool, with the handle of the
\* entity stored there
C32_Witness ==
    /\ stack # <<>>
    /\ Top.phase = "callback"
    /\ Top.kind \in {"forEachComponents", "forEachComponentsEarlyReturn"}
    /\ Top.index = 1
    /\ Top.id = <<EntityId(1, pools[Top.pool[1]].versions[2], Top.pool[1], FALSE)>>
    /\ pools[Top.pool[1]].versions[1] # pools[Top.pool[1]].versions[2]

\* C33: while forEachEntity runs and no operation has changed the pools'
\* entities since it began, its callback has been invoked at most once per
\* entity and only for live entities; the handle of the running callback is
\* not tombstoned and carries the version, current slot and pool key of a live
\* entity; when forEachEntity returns, the callback has been invoked exactly
\* once for every live entity.
C33_ForEachEntityOncePerEntity ==
    [][ \A d \in DOMAIN stack :
          (stack[d].kind = "forEachEntity" /\ ~stack[d].mutated) =>
              /\ \A v \in DOMAIN stack[d].invoked :
                    /\ v \in DOMAIN abstract
                    /\ abstract[v].alive
                    /\ stack[d].invoked[v] = 1
              /\ stack[d].phase = "callback" =>
                    LET id == stack[d].id[1]
                    IN  /\ ~id.dead
                        /\ id.version \in DOMAIN stack[d].invoked
                        /\ id.poolKey \in DOMAIN pools
                        /\ id.unstableIndex < pools[id.poolKey].poolSize
                        /\ pools[id.poolKey].versions[id.unstableIndex + 1] = id.version
              /\ (d = Len(stack) /\ stack' = Pop) =>
                    DOMAIN stack[d].invoked = Matching({})
      ]_vars

\* forEachEntity has come to the end of its loop over the pools and has
\* invoked its callback for a live entity, while another entity was destroyed
C33_Witness ==
    /\ stack # <<>>
    /\ Top.kind = "forEachEntity"
    /\ ~Top.mutated
    /\ Top.phase = "loop"
    /\ (DOMAIN pools) \ Top.visited = {}
    /\ Top.invoked # EmptyMap
    /\ \E v \in DOMAIN abstract : ~abstract[v].alive

\* the pools that hold an entity
NonEmptyPools == {k \in DOMAIN pools : pools[k].poolSize > 0}

\* C34: while forEachPool runs and no operation has changed the pools'
\* entities since it began, its callback has been invoked at most once per
\* pool and only for pools of size greater than 0; when forEachPool returns,
\* the callback has been invoked exactly once for each of them.
C34_ForEachPoolOncePerNonEmptyPool ==
    [][ \A d \in DOMAIN stack :
          (stack[d].kind = "forEachPool" /\ ~stack[d].mutated) =>
              /\ \A k \in DOMAIN stack[d].invoked :
                    /\ k \in NonEmptyPools
                    /\ stack[d].invoked[k] = 1
              /\ (d = Len(stack) /\ stack' = Pop) =>
                    DOMAIN stack[d].invoked = NonEmptyPools
      ]_vars

\* forEachPool has come to the end of its loop over the pools and has invoked
\* its callback, while a pool emptied by a relocation or a destruction exists
C34_Witness ==
    /\ stack # <<>>
    /\ Top.kind = "forEachPool"
    /\ ~Top.mutated
    /\ Top.phase = "loop"
    /\ (DOMAIN pools) \ Top.visited = {}
    /\ Top.invoked # EmptyMap
    /\ (DOMAIN pools) \ NonEmptyPools # {}

\* C35: whatever createEntity, removeEntity, addComponent, removeComponent,
\* set and get a caller makes outside an iteration, no fi_assert of the pools'
\* and the registry's bookkeeping ends the process: the handle passed to the
\* pool's createEntity / createEntityFromBitmask names the slot poolSize, the
\* versions column has poolSize entries, and after the append the new handle
\* names the last slot and the version stored there.
C35_BookkeepingAssertionsUnreachable ==
    ~isIterating => fault # "assert"

\* an entity was relocated into a pool that held another entity already, and
\* the process goes on
C35_Witness ==
    /\ ~isIterating
    /\ fault = "none"
    /\ last.op \in {"addComponent", "removeComponent"}
    /\ last.note.kind = "relocated"
    /\ last.note.toIndex >= 1
    /\ pools[last.note.to].poolSize = last.note.toIndex + 1

\* C36: after every createEntity, removeEntity, addComponent, removeComponent,
\* set and get, what get returns through any handle the caller holds that is
\* not tombstoned is what the plain map version -> (type -> value) holds for
\* the handle's entity (nothing for a destroyed entity or a type it lacks),
\* where create inserts the values given, add inserts or overwrites one type,
\* remove deletes one type, set overwrites a type held and destroy deletes the
\* entity; and an operation on one entity leaves what get returns for every
\* other entity as it was, whatever swap or relocation it caused.
C36_RefinesPlainMap ==
    [][ fault' = "none" =>
          \A v \in DOMAIN held' : \A c \in Copies : \A t \in TypeIndices :
              \A after \in {get(RegAfter, held'[v][c], t).note.found} :
                  /\ ~held'[v][c].dead => after = AbstractGet(v, t)'
                  /\ (v \in DOMAIN held /\ v # last'.version /\ ~held[v][c].dead) =>
                        after = get(Reg, held[v][c], t).note.found
      ]_vars

\* a relocation has just swapped another live entity into the vacated slot:
\* the handles the caller holds of that entity are stale, and get through them
\* returns that entity's value
C36_Witness ==
    /\ fault = "none"
    /\ last.op \in {"addComponent", "removeComponent"}
    /\ last.note.kind = "relocated"
    /\ last.note.result.wasSwapped
    /\ \E v \in Versions \ {last.version} : \E t \in TypeIndices :
          /\ abstract[v].alive
          /\ t \in DOMAIN abstract[v].components
          /\ ~isValid(pools[held[v][Primary].poolKey], held[v][Primary])
          /\ get(Reg, held[v][Primary], t).note.found = <<abstract[v].components[t]>>

\* C37: resolveEntityId leaves the version of the handle it is given as it
\* is, whether it succeeds, fails or replaces the handle by a remap target;
\* when it succeeds, the slot the handle then names lies in the pool handed
\* back and stores that version. Every handle the caller holds carries the
\* version of the entity it was issued for.
C37_ResolutionKeepsIdentity ==
    fault = "none" =>
        /\ \A v \in 0..MaxVersion : \A h \in Presentable(v) :
              \A res \in {resolveEntityId(Reg, h)} :
                  /\ res.entityId.version = h.version
                  /\ res.ok =>
                        /\ res.pool # <<>>
                        /\ res.pool[1] \in DOMAIN pools
                        /\ res.entityId.unstableIndex < pools[res.pool[1]].poolSize
                        /\ pools[res.pool[1]].versions[res.entityId.unstableIndex + 1]
                              = h.version
        /\ \A v \in DOMAIN held : \A c \in Copies : held[v][c].version = v

\* a stale handle resolves, replaced by the remap target of its version, at
\* another slot than the one it named
C37_Witness ==
    /\ fault = "none"
    /\ \E v \in Versions : \E c \in Copies :
          LET res == resolveEntityId(Reg, held[v][c])
          IN  /\ res.ok
              /\ res.hops = 1
              /\ res.entityId.version = v
              /\ <<res.entityId.poolKey, res.entityId.unstableIndex>>
                    # <<held[v][c].poolKey, held[v][c].unstableIndex>>

\* the step removed a slot from a pool: removeEntity did, or a relocation
\* removed the source slot
RemovesSlot ==
    /\ fault' = "none"
    /\ ops' = ops + 1
    /\ \/ last'.op = "removeEntity" /\ last'.note.kind = "removed"
       \/ last'.op \in {"addComponent", "removeComponent"} /\ last'.note.kind = "relocated"

\* C38: when removeEntity removes slot i of a pool, or a relocation removes
\* the source slot i, the pool has one slot less, the entity of its last slot
\* is afterwards in slot i with its values (unless i was the last slot), every
\* other entity of the pool keeps its slot and its values, and every pool
\* other than this one (and the destination of the relocation) is unchanged.
C38_SwapPopFrame ==
    [][ RemovesSlot =>
          LET relocation == last'.op # "removeEntity"
              k == IF relocation THEN last'.note.from ELSE last'.note.pool
              i == IF relocation THEN last'.note.fromIndex ELSE last'.note.index
              n == pools[k].poolSize
              involved == IF relocation THEN {k, last'.note.to} ELSE {k}
          IN  /\ i < n
              /\ pools[k].versions[i + 1] = last'.version
              /\ pools'[k].poolSize = n - 1
              /\ Len(pools'[k].versions) = n - 1
              /\ \A j \in (0..(n - 1)) \ {i} :
                    LET to == IF j = n - 1 THEN i ELSE j
                    IN  /\ pools'[k].versions[to + 1] = pools[k].versions[j + 1]
                        /\ Row(pools'[k], to) = Row(pools[k], j)
              /\ \A other \in (DOMAIN pools) \ involved : pools'[other] = pools[other]
      ]_vars

\* the first slot of a pool of three or more was removed: the entity of the
\* last slot has moved into it, and the entity of the second slot has stayed
C38_Witness ==
    /\ fault = "none"
    /\ last.op \in {"removeEntity", "addComponent"}
    /\ last.note.kind \in {"removed", "relocated"}
    /\ last.note.result.wasSwapped
    /\ LET k == IF last.op = "removeEntity" THEN last.note.pool ELSE last.note.from
           i == IF last.op = "removeEntity" THEN last.note.index ELSE last.note.fromIndex
       IN  /\ i = 0
           /\ pools[k].poolSize >= 2
           /\ pools[k].versions[1] > pools[k].versions[2]
           /\ pools[k].versions[1] # last.version

====
